---- MODULE Spec2Model ----
(***************************************************************************)
(* Offline durability subsystem of rin-stock-manager: the FileQueue of     *)
(* src/services/file_queue.py (and its two variants under                  *)
(* services/platform and services/app_services), modelled at the level of *)
(* its await points, over a file system that holds the queue file and the  *)
(* temporary file of the compaction as sequences of bytes.                 *)
(***************************************************************************)
EXTENDS Integers, Sequences, FiniteSets, TLC

(***************************************************************************)
(* Bounds of the model.                                                    *)
(***************************************************************************)
MaxCalls == 4
MaxConcCalls == 3
MaxFaults == 2
MaxCrashes == 1
MaxProbes == 4
MaxStarts == 2
MaxStops == 2
MaxRegisters == 1
MaxWatcherCalls == 6
MaxPings == 2

(***************************************************************************)
(* Program constants.                                                      *)
(***************************************************************************)
DEFAULT_MAX_BYTES == 5242880
DEFAULT_GC_KEEP_LINES == 5000

(***************************************************************************)
(* Bytes.  Every character the queue writes is ASCII (json.dumps escapes   *)
(* the rest), so one character is one byte.  BadByte is a byte that is not *)
(* valid UTF-8; only an external corruption of the file produces it.       *)
(***************************************************************************)
NL == "\n"
QUOTE == "\""
BadByte == "<FF>"
Digits == {"1", "2"}
Whitespace == {" ", NL}

(***************************************************************************)
(* Python values, as far as the queue's records need them: int, str, an    *)
(* object json cannot serialise, and dict with at most one item.           *)
(***************************************************************************)
PyInt(ds) == [t |-> "int", c |-> ds]
PyStr(cs) == [t |-> "str", c |-> cs]
PyObj == [t |-> "obj", c |-> <<>>]
PyDict(items) == [t |-> "dict", c |-> items]
Dict1(k, v) == PyDict(<< <<k, v>> >>)

(***************************************************************************)
(* json.dumps with the default separators.  A key that is an int is        *)
(* written as a string; a value json cannot serialise raises TypeError.    *)
(***************************************************************************)
RECURSIVE Serializable(_)
Serializable(v) ==
    CASE v.t = "obj" -> FALSE
      [] v.t = "dict" -> \A i \in 1..Len(v.c) : Serializable(v.c[i][2])
      [] OTHER -> TRUE

RECURSIVE DumpsValue(_)
DumpsValue(v) ==
    CASE v.t = "int" -> v.c
      [] v.t = "str" -> <<QUOTE>> \o v.c \o <<QUOTE>>
      [] v.t = "dict" ->
            IF v.c = <<>> THEN <<"{", "}">>
            ELSE <<"{", QUOTE>> \o v.c[1][1].c \o <<QUOTE, ":", " ">>
                 \o DumpsValue(v.c[1][2]) \o <<"}">>
      [] OTHER -> <<>>

json_dumps(record) == DumpsValue(record)

(***************************************************************************)
(* json.loads on one line of text: leading and trailing whitespace is      *)
(* skipped, one value is parsed, anything left over is an error            *)
(* (JSONDecodeError).  The alphabet has no comma and no bracket, so an     *)
(* object has at most one member.                                          *)
(***************************************************************************)
RECURSIVE SkipWs(_, _)
SkipWs(s, i) ==
    IF i <= Len(s) /\ s[i] \in Whitespace THEN SkipWs(s, i + 1) ELSE i

RECURSIVE ScanDigits(_, _)
ScanDigits(s, i) ==
    IF i <= Len(s) /\ s[i] \in Digits THEN ScanDigits(s, i + 1) ELSE i

\* index of the closing quote of a string whose content starts at i, or 0
RECURSIVE ScanString(_, _)
ScanString(s, i) ==
    IF i > Len(s) THEN 0
    ELSE IF s[i] = QUOTE THEN i
    ELSE IF s[i] = NL THEN 0
    ELSE ScanString(s, i + 1)

ParseFail == [ok |-> FALSE, val |-> PyObj, next |-> 0]

ParseString(s, i) ==
    IF i > Len(s) \/ s[i] # QUOTE THEN ParseFail
    ELSE LET j == ScanString(s, i + 1)
         IN IF j = 0 THEN ParseFail
            ELSE [ok |-> TRUE, val |-> PyStr(SubSeq(s, i + 1, j - 1)), next |-> j + 1]

RECURSIVE ParseValue(_, _)
ParseValue(s, i) ==
    IF i > Len(s) THEN ParseFail
    ELSE IF s[i] = QUOTE THEN ParseString(s, i)
    ELSE IF s[i] \in Digits THEN
        LET j == ScanDigits(s, i)
        IN [ok |-> TRUE, val |-> PyInt(SubSeq(s, i, j - 1)), next |-> j]
    ELSE IF s[i] = "{" THEN
        LET k1 == SkipWs(s, i + 1)
        IN IF k1 <= Len(s) /\ s[k1] = "}"
           THEN [ok |-> TRUE, val |-> PyDict(<<>>), next |-> k1 + 1]
           ELSE LET key == ParseString(s, k1)
                IN IF ~key.ok THEN ParseFail
                   ELSE LET k2 == SkipWs(s, key.next)
                        IN IF k2 > Len(s) \/ s[k2] # ":" THEN ParseFail
                           ELSE LET v == ParseValue(s, SkipWs(s, k2 + 1))
                                IN IF ~v.ok THEN ParseFail
                                   ELSE LET k3 == SkipWs(s, v.next)
                                        IN IF k3 > Len(s) \/ s[k3] # "}" THEN ParseFail
                                           ELSE [ok |-> TRUE,
                                                 val |-> Dict1(key.val, v.val),
                                                 next |-> k3 + 1]
    ELSE ParseFail

json_loads(line) ==
    LET r == ParseValue(line, SkipWs(line, 1))
    IN IF r.ok /\ SkipWs(line, r.next) = Len(line) + 1
       THEN [ok |-> TRUE, val |-> r.val]
       ELSE [ok |-> FALSE, val |-> PyObj]

(***************************************************************************)
(* Text-mode reading with newline="": the bytes are decoded as UTF-8       *)
(* (UnicodeDecodeError on a byte that is not) and split after each "\n";   *)
(* a last line without "\n" is a line too.                                 *)
(***************************************************************************)
Decodable(data) == \A i \in 1..Len(data) : data[i] # BadByte

RECURSIVE ReadLinesFrom(_, _, _)
ReadLinesFrom(data, start, i) ==
    IF i > Len(data)
    THEN IF start > Len(data) THEN <<>> ELSE <<SubSeq(data, start, Len(data))>>
    ELSE IF data[i] = NL
         THEN <<SubSeq(data, start, i)>> \o ReadLinesFrom(data, i + 1, i + 1)
         ELSE ReadLinesFrom(data, start, i + 1)

readlines(data) == ReadLinesFrom(data, 1, 1)

\* the kept lines written back in reverse order
RECURSIVE ConcatReversed(_)
ConcatReversed(lines) ==
    IF lines = <<>> THEN <<>> ELSE ConcatReversed(Tail(lines)) \o Head(lines)

\* what the loop of f_write.write(line) writes
RECURSIVE Concat(_)
Concat(lines) == IF lines = <<>> THEN <<>> ELSE Head(lines) \o Concat(Tail(lines))


(***************************************************************************)
(* The records the callers push: a string-keyed record with an int value,  *)
(* one with a str value (a longer line), an int-keyed record, and a record *)
(* holding a value json cannot serialise.                                  *)
(***************************************************************************)
RecA == Dict1(PyStr(<<"a">>), PyInt(<<"1">>))
RecB == Dict1(PyStr(<<"b">>), PyStr(<<"x">>))
RecIntKey == Dict1(PyInt(<<"1">>), PyInt(<<"2">>))
RecUnserializable == Dict1(PyStr(<<"a">>), PyObj)
Records == {RecA, RecB, RecIntKey, RecUnserializable}

\* a line written without its newline
LineNoNewline(record) == json_dumps(record)

Line(record) == json_dumps(record) \o <<NL>>

Tasks == {"t1", "t2"}
Variants == {"services", "platform", "app_services"}

\* crashes so far, and how many calls had ended when the last one happened
NoCrash == [push |-> 0, pop |-> 0, at |-> 0]
NoFile == [exists |-> FALSE, data |-> <<>>]
File(data) == [exists |-> TRUE, data |-> data]

IdleTask == [pc |-> "idle", op |-> "none", arg |-> PyObj, items |-> <<>>,
             buf |-> <<>>, nread |-> 0, exc |-> "none", gc |-> FALSE,
             gcfailed |-> FALSE, gcret |-> "none", before |-> NoFile,
             lo |-> 0, hi |-> 0, dr |-> 0]

VARIABLES
    variant,          \* which of the three FileQueue sources runs
    max_bytes,        \* FileQueue.max_bytes
    GC_KEEP_LINES,    \* FileQueue.GC_KEEP_LINES
    queue_file,       \* the file at self.queue_file
    temp_queue_file,  \* the file at self.queue_file.with_suffix(".tmp")
    lock,             \* self._lock: its owner ("free" if none) and its FIFO of waiters
    tasks,            \* the caller tasks of this run
    seed,             \* the pieces the queue file holds when the run starts
    task,             \* per task: position, call, argument, locals
    calls,            \* number of calls made so far
    faults,           \* number of I/O failures injected so far
    crashes,          \* number of process crashes so far, by the call they interrupted
    written,          \* ghost: every line appended to the queue file, in order
    popped,           \* ghost: how many lines of written preceded the last drain
    dropped,          \* ghost: lines removed by compaction, since the last drain and in all
    history,          \* ghost: the completed calls with their outcome
    event_notifier,   \* ReconnectWatcher: "given" or "none"
    ping_interval,    \* ReconnectWatcher._ping_interval
    running,          \* ReconnectWatcher._running
    watch_task,       \* ReconnectWatcher._task: index into loops, 0 for None
    fail_count,       \* ReconnectWatcher._fail_count
    is_online,        \* ReconnectWatcher._is_online: "None", "True" or "False"
    last_checked_at,  \* ReconnectWatcher._last_checked_at: 0 for None, else the time
    on_reconnects,    \* ReconnectWatcher._on_reconnects: the callbacks, in order
    loops,            \* the tasks start() created, each running _watch()
    stopper,          \* the call of stop() in progress, if any
    wcalls,           \* number of probes, start(), stop(), register calls so far
    trace,            \* ghost: what the watcher did, in order
    pinger            \* calls of ReconnectWatcher._ping() made on their own

\* the variables of the ReconnectWatcher
wvars == <<event_notifier, ping_interval, running, watch_task, fail_count, is_online,
           last_checked_at, on_reconnects, loops, stopper, wcalls, trace>>

\* the variables of the FileQueue
qvars == <<variant, max_bytes, GC_KEEP_LINES, queue_file, temp_queue_file, lock,
           tasks, seed, task, calls, faults, crashes, written, popped, dropped, history>>

vars == <<qvars, wvars, pinger>>

\* what no step of the FileQueue changes: its configuration, and the watcher
config == <<variant, max_bytes, GC_KEEP_LINES, tasks, seed, wvars, pinger>>


(***************************************************************************)
(* Helpers of the steps.                                                   *)
(***************************************************************************)
\* the items pop_all collects: json.loads of every line that parses
RECURSIVE ParseLines(_)
ParseLines(lines) ==
    IF lines = <<>> THEN <<>>
    ELSE LET r == json_loads(Head(lines))
         IN (IF r.ok THEN <<r.val>> ELSE <<>>) \o ParseLines(Tail(lines))

\* a compaction that keeps the oldest lines instead of the newest
KeepFirst(all_lines, keep) ==
    IF keep = 0 \/ keep >= Len(all_lines) THEN all_lines
    ELSE SubSeq(all_lines, 1, keep)

\* a compaction that keeps one line more than configured
KeepOneMore(all_lines, keep) ==
    IF keep = 0 \/ keep + 1 >= Len(all_lines) THEN all_lines
    ELSE SubSeq(all_lines, Len(all_lines) - keep, Len(all_lines))

\* a compaction that enforces max_bytes as a hard cap
KeepUnderCap(all_lines, keep) ==
    LET kept == IF keep = 0 \/ keep >= Len(all_lines) THEN all_lines
                ELSE SubSeq(all_lines, Len(all_lines) - keep + 1, Len(all_lines))
    IN IF Len(Concat(kept)) > max_bytes THEN <<>> ELSE kept

\* all_lines[-GC_KEEP_LINES:]
KeepLast(all_lines, keep) ==
    IF keep = 0 \/ keep >= Len(all_lines) THEN all_lines
    ELSE SubSeq(all_lines, Len(all_lines) - keep + 1, Len(all_lines))

\* one task's record with some fields changed
Goto(t, pc) == [task EXCEPT ![t].pc = pc]

\* the call of task t ends: its outcome is appended to the history
Entry(t, kind, val, n) ==
    [task |-> t, op |-> task[t].op, arg |-> task[t].arg, kind |-> kind,
     val |-> val, n |-> n, exc |-> task[t].exc, gc |-> task[t].gc,
     file |-> queue_file.exists, tmp |-> temp_queue_file.exists,
     gcret |-> task[t].gcret,
     gcfailed |-> task[t].gcfailed, intact |-> (queue_file = task[t].before),
     lo |-> task[t].lo, hi |-> task[t].hi, dr |-> task[t].dr]

\* an exit that leaves the lock with the task that ends its call
ReleaseKeepsLock(t) == lock

\* async with self._lock, leaving: the lock passes to the first waiter, if any
Release(t) ==
    IF lock.waiters = <<>>
    THEN [owner |-> "free", waiters |-> <<>>]
    ELSE [owner |-> Head(lock.waiters), waiters |-> Tail(lock.waiters)]

AfterAcquire(op) == IF op = "push" THEN "push_open" ELSE "pop_exists"

\* the task record of every task after t released the lock and finished its call
Released(t) ==
    [u \in Tasks |->
        IF u = t THEN IdleTask
        ELSE IF lock.waiters # <<>> /\ u = Head(lock.waiters)
             THEN [task[u] EXCEPT !.pc = AfterAcquire(task[u].op)]
             ELSE task[u]]

(***************************************************************************)
(* The calls.  Each task is a caller that awaits one call before it makes  *)
(* the next.                                                               *)
(***************************************************************************)
\* how many calls a run makes: fewer when two tasks interleave, and one
\* fewer for each I/O failure it has had
CallLimit == IF tasks = Tasks THEN MaxConcCalls ELSE MaxCalls
WithinLimit == calls + faults < CallLimit

Call(t, op, arg, pc) ==
    /\ t \in tasks
    /\ task[t].pc = "idle"
    /\ WithinLimit
    /\ calls' = calls + 1
    /\ task' = [task EXCEPT ![t] = [IdleTask EXCEPT !.pc = pc, !.op = op, !.arg = arg,
                                                    !.lo = popped, !.hi = Len(written)]]
    /\ UNCHANGED <<config, queue_file, temp_queue_file, lock, faults, crashes,
                   written, popped, dropped, history>>

CallPush(t) == \E record \in Records : Call(t, "push", record, "push_acquire")
CallPopAll(t) == Call(t, "pop_all", PyObj, "pop_acquire")
CallSize(t) == Call(t, "size", PyObj, "size_exists")
CallGc(t) == Call(t, "gc", PyObj, "size_exists")

(***************************************************************************)
(* async with self._lock, entering (push and pop_all).  asyncio.Lock is    *)
(* fair: a task that finds the lock held, or others waiting, queues up.    *)
(***************************************************************************)
\* a lock that lets every task in
CanAcquireAlways == TRUE

CanAcquire == lock.owner = "free" /\ lock.waiters = <<>>

\* push and pop_all written without async with self._lock
AcquireWithoutLock(t) ==
    /\ t \in tasks
    /\ task[t].pc \in {"push_acquire", "pop_acquire"}
    /\ task' = Goto(t, AfterAcquire(task[t].op))
    /\ UNCHANGED <<config, queue_file, temp_queue_file, lock, calls, faults, crashes,
                   written, popped, dropped, history>>

Acquire(t) ==
    /\ t \in tasks
    /\ task[t].pc \in {"push_acquire", "pop_acquire"}
    /\ IF CanAcquire
       THEN /\ lock' = [lock EXCEPT !.owner = t]
            /\ task' = Goto(t, AfterAcquire(task[t].op))
       ELSE /\ lock' = [lock EXCEPT !.waiters = Append(@, t)]
            /\ task' = Goto(t, "wait_lock")
    /\ UNCHANGED <<config, queue_file, temp_queue_file, calls, faults, crashes,
                   written, popped, dropped, history>>

(***************************************************************************)
(* push                                                                    *)
(***************************************************************************)
\* aiofiles.open(self.queue_file, "a"): creates the file when it is absent
PushOpen(t) ==
    /\ t \in tasks
    /\ task[t].pc = "push_open"
    /\ queue_file' = File(queue_file.data)
    /\ task' = Goto(t, "push_write")
    /\ UNCHANGED <<config, temp_queue_file, lock, calls, faults, crashes,
                   written, popped, dropped, history>>

\* f.write(json.dumps(record) + "\n") and the close of the file
PushWrite(t) ==
    /\ t \in tasks
    /\ task[t].pc = "push_write"
    /\ IF Serializable(task[t].arg)
       THEN /\ queue_file' = File(queue_file.data \o Line(task[t].arg))
            /\ written' = Append(written, Line(task[t].arg))
            /\ task' = [task EXCEPT ![t].pc = "size_exists", ![t].hi = Len(written) + 1]
       ELSE /\ task' = [task EXCEPT ![t].pc = "push_return", ![t].exc = "TypeError"]
            /\ UNCHANGED <<queue_file, written>>
    /\ UNCHANGED <<config, temp_queue_file, lock, calls, faults, crashes,
                   popped, dropped, history>>

\* the end of push: except Exception (raise, or pass in the two variants), lock released
PushRaises(exc) == exc # "none" /\ variant = "services"

PushReturn(t) ==
    /\ t \in tasks
    /\ task[t].pc = "push_return"
    /\ history' = Append(history,
           Entry(t, IF PushRaises(task[t].exc) THEN "raise" ELSE "return", <<>>, 0))
    /\ lock' = Release(t)
    /\ task' = Released(t)
    /\ UNCHANGED <<config, queue_file, temp_queue_file, calls, faults, crashes,
                   written, popped, dropped>>

(***************************************************************************)
(* size, called by a task or by _gc_if_needed                              *)
(***************************************************************************)
\* a size check that compacts already when the size equals max_bytes
SizeReturnsAtCap(t, n, exc) ==
    IF task[t].op = "size"
    THEN /\ history' = Append(history, [Entry(t, "return", <<>>, n) EXCEPT !.exc = exc])
         /\ task' = [task EXCEPT ![t] = IdleTask]
    ELSE /\ task' = [task EXCEPT ![t].pc = IF n < max_bytes THEN "gc_finally" ELSE "gc_read",
                                  ![t].before = queue_file]
         /\ UNCHANGED history

\* what follows size() returning n; exc: the exception size() caught, if any
SizeReturns(t, n, exc) ==
    IF task[t].op = "size"
    THEN /\ history' = Append(history, [Entry(t, "return", <<>>, n) EXCEPT !.exc = exc])
         /\ task' = [task EXCEPT ![t] = IdleTask]
    ELSE /\ task' = [task EXCEPT ![t].pc = IF n <= max_bytes THEN "gc_finally" ELSE "gc_read",
                                  ![t].before = queue_file]
         /\ UNCHANGED history

SizeExists(t) ==
    /\ t \in tasks
    /\ task[t].pc = "size_exists"
    /\ IF queue_file.exists
       THEN task' = Goto(t, "size_stat") /\ UNCHANGED history
       ELSE SizeReturns(t, 0, "none")
    /\ UNCHANGED <<config, queue_file, temp_queue_file, lock, calls, faults, crashes,
                   written, popped, dropped>>

\* a size() that counts lines instead of bytes
SizeStatCountsLines(t) ==
    /\ t \in tasks
    /\ task[t].pc = "size_stat"
    /\ IF queue_file.exists
       THEN SizeReturns(t, Len(readlines(queue_file.data)), "none")
       ELSE SizeReturns(t, 0, "FileNotFoundError")
    /\ UNCHANGED <<config, queue_file, temp_queue_file, lock, calls, faults, crashes,
                   written, popped, dropped>>

SizeStat(t) ==
    /\ t \in tasks
    /\ task[t].pc = "size_stat"
    /\ IF queue_file.exists
       THEN SizeReturns(t, Len(queue_file.data), "none")
       ELSE SizeReturns(t, 0, "FileNotFoundError")
    /\ UNCHANGED <<config, queue_file, temp_queue_file, lock, calls, faults, crashes,
                   written, popped, dropped>>


(***************************************************************************)
(* _gc_if_needed after its size check                                      *)
(***************************************************************************)
\* open(self.queue_file, "r"), readlines(), all_lines[-GC_KEEP_LINES:]
GcRead(t) ==
    /\ t \in tasks
    /\ task[t].pc = "gc_read"
    /\ IF queue_file.exists /\ Decodable(queue_file.data)
       THEN task' = [task EXCEPT ![t].pc = "gc_open_tmp",
                                 ![t].nread = Len(readlines(queue_file.data)),
                                 ![t].buf = KeepLast(readlines(queue_file.data),
                                                     GC_KEEP_LINES)]
       ELSE task' = [task EXCEPT ![t].pc = "gc_finally",
                                 ![t].gcfailed = queue_file.exists]
    /\ UNCHANGED <<config, queue_file, temp_queue_file, lock, calls, faults, crashes,
                   written, popped, dropped, history>>

\* open(temp_queue_file, "w"): creates or truncates the temporary file
GcOpenTmp(t) ==
    /\ t \in tasks
    /\ task[t].pc = "gc_open_tmp"
    /\ temp_queue_file' = File(<<>>)
    /\ task' = Goto(t, "gc_write_tmp")
    /\ UNCHANGED <<config, queue_file, lock, calls, faults, crashes,
                   written, popped, dropped, history>>

\* the loop of f_write.write(line) and the close of the temporary file
GcWriteTmp(t) ==
    /\ t \in tasks
    /\ task[t].pc = "gc_write_tmp"
    /\ temp_queue_file' = File(Concat(task[t].buf))
    /\ task' = Goto(t, "gc_remove")
    /\ UNCHANGED <<config, queue_file, lock, calls, faults, crashes,
                   written, popped, dropped, history>>

\* aios.remove(self.queue_file)
GcRemove(t) ==
    /\ t \in tasks
    /\ task[t].pc = "gc_remove"
    /\ IF queue_file.exists
       THEN queue_file' = NoFile /\ task' = Goto(t, "gc_rename")
       ELSE task' = Goto(t, "gc_finally") /\ UNCHANGED queue_file
    /\ UNCHANGED <<config, temp_queue_file, lock, calls, faults, crashes,
                   written, popped, dropped, history>>

\* aios.rename(temp_queue_file, self.queue_file)
GcRename(t) ==
    /\ t \in tasks
    /\ task[t].pc = "gc_rename"
    /\ IF temp_queue_file.exists
       THEN /\ queue_file' = temp_queue_file
            /\ temp_queue_file' = NoFile
            /\ dropped' = [run |-> dropped.run + (task[t].nread - Len(task[t].buf)),
                            total |-> dropped.total + (task[t].nread - Len(task[t].buf))]
       ELSE UNCHANGED <<queue_file, temp_queue_file, dropped>>
    /\ task' = [task EXCEPT ![t].pc = "gc_finally", ![t].gc = temp_queue_file.exists]
    /\ UNCHANGED <<config, lock, calls, faults, crashes, written, popped, history>>

\* _gc_if_needed returns, to push or to the task that called it; how: what
\* its finally block did ("returned", or "unlink_failed")
GcReturns(t, how) ==
    IF task[t].op = "gc"
    THEN /\ history' = Append(history,
                [Entry(t, "return", <<>>, 0) EXCEPT !.gcret = how,
                                                   !.tmp = temp_queue_file'.exists])
         /\ task' = [task EXCEPT ![t] = IdleTask]
    ELSE /\ task' = [task EXCEPT ![t].pc = "push_return", ![t].gcret = how]
         /\ UNCHANGED history

\* a finally block that does not remove the temporary file
GcFinallyKeepsTemp(t) ==
    /\ t \in tasks
    /\ task[t].pc = "gc_finally"
    /\ UNCHANGED temp_queue_file
    /\ GcReturns(t, "returned")
    /\ UNCHANGED <<config, queue_file, lock, calls, faults, crashes,
                   written, popped, dropped>>

\* finally: the temporary file is unlinked if it exists; _gc_if_needed returns
GcFinally(t) ==
    /\ t \in tasks
    /\ task[t].pc = "gc_finally"
    /\ temp_queue_file' = NoFile
    /\ GcReturns(t, "returned")
    /\ UNCHANGED <<config, queue_file, lock, calls, faults, crashes,
                   written, popped, dropped>>

(***************************************************************************)
(* pop_all                                                                 *)
(***************************************************************************)
\* a pop_all without the exists check and without except FileNotFoundError
PopExistsRaises(t) ==
    /\ t \in tasks
    /\ task[t].pc = "pop_exists"
    /\ task' = [task EXCEPT ![t].pc = IF queue_file.exists THEN "pop_read" ELSE "pop_return",
                            ![t].exc = IF queue_file.exists THEN "none" ELSE "FileNotFoundError",
                            ![t].lo = popped, ![t].hi = Len(written), ![t].dr = dropped.run]
    /\ UNCHANGED <<config, queue_file, temp_queue_file, lock, calls, faults, crashes,
                   written, popped, dropped, history>>

\* if not await aios.path.exists(self.queue_file): return []
PopExists(t) ==
    /\ t \in tasks
    /\ task[t].pc = "pop_exists"
    /\ task' = [task EXCEPT ![t].pc = IF queue_file.exists THEN "pop_read" ELSE "pop_return",
                            ![t].lo = popped, ![t].hi = Len(written), ![t].dr = dropped.run]
    /\ UNCHANGED <<config, queue_file, temp_queue_file, lock, calls, faults, crashes,
                   written, popped, dropped, history>>

\* open(self.queue_file, "r") and the loop over its lines
PopRead(t) ==
    /\ t \in tasks
    /\ task[t].pc = "pop_read"
    /\ task' = [task EXCEPT ![t] =
          IF ~queue_file.exists
          THEN [@ EXCEPT !.pc = "pop_return"]
          ELSE IF ~Decodable(queue_file.data)
          THEN [@ EXCEPT !.pc = "pop_return", !.exc = "UnicodeDecodeError"]
          ELSE [@ EXCEPT !.pc = "pop_unlink",
                         !.items = ParseLines(readlines(queue_file.data))]]
    /\ UNCHANGED <<config, queue_file, temp_queue_file, lock, calls, faults, crashes,
                   written, popped, dropped, history>>

\* a pop_all that returns the items and leaves the file
PopUnlinkKeepsFile(t) ==
    /\ t \in tasks
    /\ task[t].pc = "pop_unlink"
    /\ popped' = Len(written)
    /\ dropped' = [dropped EXCEPT !.run = 0]
    /\ task' = Goto(t, "pop_return")
    /\ UNCHANGED <<config, queue_file, temp_queue_file, lock, calls, faults, crashes,
                   written, history>>

\* aios.unlink(self.queue_file)
PopUnlink(t) ==
    /\ t \in tasks
    /\ task[t].pc = "pop_unlink"
    /\ IF queue_file.exists
       THEN /\ queue_file' = NoFile
            /\ popped' = Len(written)
            /\ dropped' = [dropped EXCEPT !.run = 0]
            /\ task' = Goto(t, "pop_return")
       ELSE /\ task' = [task EXCEPT ![t].pc = "pop_return", ![t].items = <<>>]
            /\ UNCHANGED <<queue_file, popped, dropped>>
    /\ UNCHANGED <<config, temp_queue_file, lock, calls, faults, crashes,
                   written, history>>

\* return items (or the exception), lock released
PopReturn(t) ==
    /\ t \in tasks
    /\ task[t].pc = "pop_return"
    /\ history' = Append(history,
           Entry(t, IF task[t].exc # "none" THEN "raise" ELSE "return", task[t].items, 0))
    /\ lock' = Release(t)
    /\ task' = Released(t)
    /\ UNCHANGED <<config, queue_file, temp_queue_file, calls, faults, crashes,
                   written, popped, dropped>>

(***************************************************************************)
(* I/O failures: an operation on a file raises OSError (permission, disk   *)
(* full, I/O error).  os.path.exists never raises.                         *)
(***************************************************************************)
MayFail == faults < MaxFaults /\ WithinLimit

\* what a failed or interrupted append leaves of the line: a proper prefix.
\* One length per kind of outcome: nothing, a fragment that is not JSON, and
\* the whole JSON text without its newline.
TornLengths(line) == {0, 1, Len(line) - 1}
TornPrefixes(line) == {SubSeq(line, 1, n) : n \in TornLengths(line)}

\* aiofiles.open(self.queue_file, "a") raises
FailPushOpen(t) ==
    /\ t \in tasks
    /\ task[t].pc = "push_open"
    /\ MayFail
    /\ faults' = faults + 1
    /\ task' = [task EXCEPT ![t].pc = "push_return", ![t].exc = "OSError"]
    /\ UNCHANGED <<config, queue_file, temp_queue_file, lock, calls, crashes,
                   written, popped, dropped, history>>

\* f.write or the close of the file raises
FailPushWrite(t) ==
    /\ t \in tasks
    /\ task[t].pc = "push_write"
    /\ Serializable(task[t].arg)
    /\ MayFail
    /\ faults' = faults + 1
    /\ \E part \in TornPrefixes(Line(task[t].arg)) :
          queue_file' = File(queue_file.data \o part)
    /\ task' = [task EXCEPT ![t].pc = "push_return", ![t].exc = "OSError"]
    /\ UNCHANGED <<config, temp_queue_file, lock, calls, crashes,
                   written, popped, dropped, history>>

\* aios.stat raises: size() returns 0
FailSizeStat(t) ==
    /\ t \in tasks
    /\ task[t].pc = "size_stat"
    /\ MayFail
    /\ faults' = faults + 1
    /\ SizeReturns(t, 0, "OSError")
    /\ UNCHANGED <<config, queue_file, temp_queue_file, lock, calls, crashes,
                   written, popped, dropped>>

\* a step of the compaction raises: except Exception logs it, then finally
FailGcStep(t) ==
    /\ t \in tasks
    /\ task[t].pc \in {"gc_read", "gc_open_tmp", "gc_write_tmp", "gc_remove", "gc_rename"}
    /\ MayFail
    /\ faults' = faults + 1
    /\ task' = [task EXCEPT ![t].pc = "gc_finally", ![t].gcfailed = TRUE]
    /\ UNCHANGED <<config, queue_file, temp_queue_file, lock, calls, crashes,
                   written, popped, dropped, history>>

\* aios.unlink(temp_queue_file) raises in finally: logged, _gc_if_needed returns
FailGcUnlink(t) ==
    /\ t \in tasks
    /\ task[t].pc = "gc_finally"
    /\ temp_queue_file.exists
    /\ MayFail
    /\ faults' = faults + 1
    /\ UNCHANGED temp_queue_file
    /\ GcReturns(t, "unlink_failed")
    /\ UNCHANGED <<config, queue_file, lock, calls, crashes,
                   written, popped, dropped>>

\* a pop_all that removes the file when it fails
FailPopDeletes(t) ==
    /\ t \in tasks
    /\ task[t].pc \in {"pop_read", "pop_unlink"}
    /\ MayFail
    /\ faults' = faults + 1
    /\ queue_file' = NoFile
    /\ task' = [task EXCEPT ![t].pc = "pop_return", ![t].exc = "OSError"]
    /\ UNCHANGED <<config, temp_queue_file, lock, calls, crashes,
                   written, popped, dropped, history>>

\* the open, the read or the unlink of pop_all raises: except Exception: raise
FailPop(t) ==
    /\ t \in tasks
    /\ task[t].pc \in {"pop_read", "pop_unlink"}
    /\ MayFail
    /\ faults' = faults + 1
    /\ task' = [task EXCEPT ![t].pc = "pop_return", ![t].exc = "OSError"]
    /\ UNCHANGED <<config, queue_file, temp_queue_file, lock, calls, crashes,
                   written, popped, dropped, history>>

(***************************************************************************)
(* Process crashes: the tasks and the lock are gone, the files stay; the   *)
(* application starts again with a new FileQueue on the same path.         *)
(***************************************************************************)
MayCrash == crashes.push + crashes.pop < MaxCrashes

Restart ==
    /\ task' = [u \in Tasks |-> IdleTask]
    /\ lock' = [owner |-> "free", waiters |-> <<>>]

\* the process dies at some step of pop_all
CrashInPop(t) ==
    /\ t \in tasks
    /\ task[t].op = "pop_all"
    /\ MayCrash
    /\ crashes' = [crashes EXCEPT !.pop = @ + 1, !.at = Len(history)]
    /\ Restart
    /\ UNCHANGED <<config, queue_file, temp_queue_file, calls, faults,
                   written, popped, dropped, history>>

\* the process dies at some step of push; during the append, part of the line may be written
CrashInPush(t) ==
    /\ t \in tasks
    /\ task[t].op = "push"
    /\ MayCrash
    /\ crashes' = [crashes EXCEPT !.push = @ + 1, !.at = Len(history)]
    /\ Restart
    /\ IF task[t].pc = "push_write" /\ Serializable(task[t].arg)
       THEN \E part \in TornPrefixes(Line(task[t].arg)) :
                queue_file' = File(queue_file.data \o part)
       ELSE UNCHANGED queue_file
    /\ UNCHANGED <<config, temp_queue_file, calls, faults,
                   written, popped, dropped, history>>

(***************************************************************************)
(* ReconnectWatcher.  A loop task runs _watch(); it suspends at its awaits *)
(* (the probe, each callback, the sleep), and the code between two awaits  *)
(* runs without interruption.                                              *)
(***************************************************************************)
MAX_BACKOFF == 60
DEFAULT_PING_INTERVAL == 5

\* what the HEAD request does: status 200, another status, or an exception
ProbeResults == {"200", "503", "error"}
\* what an awaited callback or a call of the notifier does
Outcomes == {"ok", "raise"}
\* the callbacks: the one given to the constructor, the ones registered later
Callbacks == {"cb0", "cb1", "cb2"}

\* a probe that takes every 2xx status for success
PingAny2xx(result) == result \in {"200", "201", "204"}

\* _ping: True for status 200, False for any other status or an exception
Ping(result) == result = "200"

RECURSIVE Pow2(_)
Pow2(n) == IF n = 0 THEN 1 ELSE 2 * Pow2(n - 1)
Min(a, b) == IF a <= b THEN a ELSE b

\* a backoff without ceiling
IntervalUncapped(count) == ping_interval * Pow2(count \div 3)

\* a backoff that doubles with every failure
IntervalPerFailure(count) == Min(ping_interval * Pow2(count), MAX_BACKOFF)

\* interval = min(ping_interval * 2 ** (fail_count // 3), max_backoff)
Interval(count) == Min(ping_interval * Pow2(count \div 3), MAX_BACKOFF)

NewLoop == [pc |-> "created", was_offline |-> FALSE, cancel |-> FALSE, idx |-> 0]
Finished(l) == l.pc \in {"done", "failed"}

\* one entry of the trace
Event(i, ev, what, n) == [loop |-> i, ev |-> ev, what |-> what, n |-> n]

InitWatcher(notifiers, intervals, constructor_callbacks) ==
    /\ event_notifier \in notifiers
    /\ ping_interval \in intervals
    /\ on_reconnects \in constructor_callbacks
    /\ running = FALSE
    /\ watch_task = 0
    /\ fail_count = 0
    /\ is_online = "None"
    /\ last_checked_at = 0
    /\ loops = <<>>
    /\ stopper = [pc |-> "idle", target |-> 0]
    /\ wcalls = [probes |-> 0, starts |-> 0, stops |-> 0, registers |-> 0]
    /\ trace = <<>>

\* what no step of the watcher changes
wconfig == <<event_notifier, ping_interval, qvars, pinger>>

\* how many probes and calls of start, stop and register a run makes in all
WithinWatcherLimit ==
    wcalls.probes + wcalls.starts + wcalls.stops + wcalls.registers < MaxWatcherCalls

\* a start() that creates a task at every call
StartAlways ==
    /\ wcalls.starts < MaxStarts
    /\ WithinWatcherLimit
    /\ wcalls' = [wcalls EXCEPT !.starts = @ + 1]
    /\ running' = TRUE
    /\ loops' = Append(loops, NewLoop)
    /\ watch_task' = Len(loops) + 1
    /\ trace' = Append(trace, Event(0, "start", "", 0))
    /\ UNCHANGED <<wconfig, fail_count, is_online, last_checked_at, on_reconnects, stopper>>

\* start(): if not self._running: set it, create the task
Start ==
    /\ wcalls.starts < MaxStarts
    /\ WithinWatcherLimit
    /\ wcalls' = [wcalls EXCEPT !.starts = @ + 1]
    /\ IF ~running
       THEN /\ running' = TRUE
            /\ loops' = Append(loops, NewLoop)
            /\ watch_task' = Len(loops) + 1
       ELSE UNCHANGED <<running, loops, watch_task>>
    /\ trace' = Append(trace, Event(0, "start", "", 0))
    /\ UNCHANGED <<wconfig, fail_count, is_online, last_checked_at, on_reconnects, stopper>>

\* a stop() that clears the flag and leaves the task to see it
StopBeginWithoutCancel ==
    /\ stopper.pc = "idle"
    /\ wcalls.stops < MaxStops
    /\ WithinWatcherLimit
    /\ wcalls' = [wcalls EXCEPT !.stops = @ + 1]
    /\ running' = FALSE
    /\ IF watch_task # 0
       THEN /\ stopper' = [pc |-> "awaiting", target |-> watch_task]
            /\ trace' = Append(trace, Event(0, "stop", "", 0))
       ELSE /\ trace' = trace \o <<Event(0, "stop", "", 0), Event(0, "stop_end", "return", 0)>>
            /\ UNCHANGED stopper
    /\ UNCHANGED <<wconfig, watch_task, fail_count, is_online, last_checked_at, on_reconnects, loops>>

\* stop() up to its await: self._running = False; self._task.cancel()
StopBegin ==
    /\ stopper.pc = "idle"
    /\ wcalls.stops < MaxStops
    /\ WithinWatcherLimit
    /\ wcalls' = [wcalls EXCEPT !.stops = @ + 1]
    /\ running' = FALSE
    /\ IF watch_task # 0
       THEN /\ loops' = [loops EXCEPT ![watch_task].cancel = @ \/ ~Finished(loops[watch_task])]
            /\ stopper' = [pc |-> "awaiting", target |-> watch_task]
            /\ trace' = Append(trace, Event(0, "stop", "", 0))
       ELSE /\ trace' = trace \o <<Event(0, "stop", "", 0), Event(0, "stop_end", "return", 0)>>
            /\ UNCHANGED <<loops, stopper>>
    /\ UNCHANGED <<wconfig, watch_task, fail_count, is_online, last_checked_at, on_reconnects>>

\* stop(), await self._task: returns when the task has finished; an exception
\* that ended the task other than CancelledError is raised to the caller
StopEnd ==
    /\ stopper.pc = "awaiting"
    /\ Finished(loops[stopper.target])
    /\ stopper' = [pc |-> "idle", target |-> 0]
    /\ trace' = Append(trace, Event(0, "stop_end",
                    IF loops[stopper.target].pc = "failed" THEN "raise" ELSE "return", 0))
    /\ UNCHANGED <<wconfig, running, watch_task, fail_count, is_online, last_checked_at,
                   on_reconnects, loops, wcalls>>

\* register_on_reconnect(callback)
Register ==
    /\ wcalls.registers < MaxRegisters
    /\ WithinWatcherLimit
    /\ wcalls' = [wcalls EXCEPT !.registers = @ + 1]
    /\ \E callback \in Callbacks :
          /\ \A k \in 1..Len(on_reconnects) : on_reconnects[k] # callback
          /\ callback # "cb0"
          /\ on_reconnects' = Append(on_reconnects, callback)
          /\ trace' = Append(trace, Event(0, "register", callback, 0))
    /\ UNCHANGED <<wconfig, running, watch_task, fail_count, is_online, last_checked_at,
                   loops, stopper>>

\* the task is cancelled: CancelledError is raised at its await and _watch
\* catches it (except asyncio.CancelledError: pass)
LoopCancelled(i) ==
    /\ i \in 1..Len(loops)
    /\ ~Finished(loops[i])
    /\ loops[i].cancel
    /\ loops' = [loops EXCEPT ![i].pc = "done"]
    /\ trace' = Append(trace, Event(i, "cancelled", "", 0))
    /\ UNCHANGED <<wconfig, running, watch_task, fail_count, is_online, last_checked_at,
                   on_reconnects, stopper, wcalls>>

\* while self._running: ... await self._ping(), on the first run of the task
\* and after each sleep
LoopResume(i) ==
    /\ i \in 1..Len(loops)
    /\ loops[i].pc \in {"created", "sleeping"}
    /\ ~loops[i].cancel
    /\ loops' = [loops EXCEPT ![i].pc = IF running THEN "pinging" ELSE "done"]
    /\ trace' = Append(trace, Event(i, IF running THEN "ping" ELSE "exit", "", 0))
    /\ UNCHANGED <<wconfig, running, watch_task, fail_count, is_online, last_checked_at,
                   on_reconnects, stopper, wcalls>>

\* a watcher that notifies after every probe
NotifiesAlways(online, was_offline) == event_notifier = "given"

\* if online: if was_offline: notify("online"); else: if not was_offline: notify("offline")
Notifies(online, was_offline) == event_notifier = "given" /\ online = was_offline

\* an is_online that only a successful probe updates
IsOnlineOnSuccess(online) == IF online THEN "True" ELSE is_online

\* self._is_online = online
IsOnline(online) == IF online THEN "True" ELSE "False"

\* the probe completes with result; the code from line 64 to the next await.
\* notified: what the notifier does if it is called
ProbeDone(i, result, notified) ==
    LET l == loops[i]
        online == Ping(result)
        notifies == Notifies(online, l.was_offline)
        raised == notifies /\ notified = "raise"
        calls_back == online /\ l.was_offline /\ ~raised /\ on_reconnects # <<>>
        count == IF ~online THEN fail_count + 1
                 ELSE IF raised \/ calls_back THEN fail_count ELSE 0
        pc == IF raised THEN "failed" ELSE IF calls_back THEN "callback" ELSE "sleeping"
    IN /\ is_online' = IsOnline(online)
       /\ last_checked_at' = wcalls.probes + 1
       /\ fail_count' = count
       /\ loops' = [loops EXCEPT ![i] =
              [@ EXCEPT !.pc = pc,
                        !.was_offline = IF raised \/ calls_back THEN l.was_offline ELSE ~online,
                        !.idx = IF calls_back THEN 1 ELSE 0]]
       /\ trace' = trace
              \o <<Event(i, "probe", IF online THEN "success" ELSE "fail", wcalls.probes + 1)>>
              \o (IF ~online THEN <<Event(i, "counter", "", count)>> ELSE <<>>)
              \o (IF notifies
                  THEN <<Event(i, "notify", IF online THEN "online" ELSE "offline", 0)>>
                  ELSE <<>>)
              \o (IF raised THEN <<Event(i, "died", "", 0)>>
                  ELSE IF calls_back THEN <<Event(i, "callback", on_reconnects[1], 0)>>
                  ELSE (IF online THEN <<Event(i, "counter", "", 0)>> ELSE <<>>)
                       \o <<Event(i, "sleep", "", Interval(count))>>)

PingDone(i) ==
    /\ i \in 1..Len(loops)
    /\ loops[i].pc = "pinging"
    /\ ~loops[i].cancel
    /\ wcalls.probes < MaxProbes
    /\ WithinWatcherLimit
    /\ wcalls' = [wcalls EXCEPT !.probes = @ + 1]
    /\ \E result \in ProbeResults, notified \in Outcomes : ProbeDone(i, result, notified)
    /\ UNCHANGED <<wconfig, running, watch_task, on_reconnects, stopper>>

\* a for loop that a raising callback ends (try around the whole loop)
NextCallbackIfOk(k, outcome) == outcome = "ok" /\ k < Len(on_reconnects)

\* whether the for loop has another callback after the k-th one ended:
\* except Exception: pass is inside the loop, the outcome does not matter
NextCallback(k, outcome) == k < Len(on_reconnects)

\* the awaited callback returns or raises an Exception (except Exception: pass);
\* the for loop goes on, and after the last callback lines 77 to 88 run
CallbackDone(i) ==
    /\ i \in 1..Len(loops)
    /\ loops[i].pc = "callback"
    /\ ~loops[i].cancel
    /\ \E outcome \in Outcomes :
          LET k == loops[i].idx
              more == NextCallback(k, outcome)
          IN /\ loops' = [loops EXCEPT ![i] =
                    IF more THEN [@ EXCEPT !.idx = k + 1]
                    ELSE [@ EXCEPT !.pc = "sleeping", !.idx = 0, !.was_offline = FALSE]]
             /\ fail_count' = (IF more THEN fail_count ELSE 0)
             /\ trace' = trace
                    \o <<Event(i, "callback_end", on_reconnects[k], IF outcome = "ok" THEN 0 ELSE 1)>>
                    \o (IF more THEN <<Event(i, "callback", on_reconnects[k + 1], 0)>>
                        ELSE <<Event(i, "counter", "", 0), Event(i, "sleep", "", Interval(0))>>)
    /\ UNCHANGED <<wconfig, running, watch_task, is_online, last_checked_at,
                   on_reconnects, stopper, wcalls>>

WatcherStep(i) ==
    \/ LoopResume(i)
    \/ LoopCancelled(i)
    \/ PingDone(i)
    \/ CallbackDone(i)

NextWatch ==
    \/ Start
    \/ StopBegin
    \/ StopEnd
    \/ Register
    \/ \E i \in 1..MaxStarts : WatcherStep(i)

(***************************************************************************)
(* ReconnectWatcher._ping() step by step.  A URL is the sequence of its    *)
(* pieces, "/" being a piece of its own.                                   *)
(***************************************************************************)
\* what session.head() gives: a response with a status, or an exception
Statuses == {"200", "201", "204", "301", "404", "500", "503"}
HeadResults == Statuses \cup {"error"}

\* str.rstrip("/")
RECURSIVE RStrip(_)
RStrip(s) ==
    IF s # <<>> /\ s[Len(s)] = "/" THEN RStrip(SubSeq(s, 1, Len(s) - 1)) ELSE s

\* __init__: self._supabase_url = supabase_url.rstrip("/")
NewPinger(supabase_url) ==
    [pc |-> "idle", supabase_url |-> RStrip(supabase_url), given |-> supabase_url,
     url |-> <<>>, status |-> "", n |-> 0, log |-> <<>>]

\* f"{self._supabase_url}/rest/v1/"
HealthPath == <<"/", "rest", "/", "v1", "/">>
Url == pinger.supabase_url \o HealthPath

\* one completed call of _ping(): how far it got, what it asked, what it returned
PingEntry(stage, url, result, ret) ==
    [stage |-> stage, url |-> url, result |-> result, ret |-> ret]

\* async with self._session_factory() as session; an exception here is caught
\* by except Exception: return False
PingOpenSession ==
    /\ pinger.pc = "idle"
    /\ pinger.n < MaxPings
    /\ \E outcome \in Outcomes :
          pinger' = IF outcome = "ok"
                    THEN [pinger EXCEPT !.pc = "session", !.n = @ + 1]
                    ELSE [pinger EXCEPT !.n = @ + 1,
                              !.log = Append(@, PingEntry("session", <<>>, "error", FALSE))]
    /\ UNCHANGED <<qvars, wvars>>

\* async with session.head(url) as resp; an exception here is caught too
PingHead ==
    /\ pinger.pc = "session"
    /\ \E result \in HeadResults :
          pinger' = IF result = "error"
                    THEN [pinger EXCEPT !.pc = "idle",
                              !.log = Append(@, PingEntry("request", Url, "error", FALSE))]
                    ELSE [pinger EXCEPT !.pc = "response", !.url = Url, !.status = result]
    /\ UNCHANGED <<qvars, wvars>>

\* return resp.status == 200
PingReturn ==
    /\ pinger.pc = "response"
    /\ pinger' = [pinger EXCEPT !.pc = "idle", !.url = <<>>, !.status = "",
                       !.log = Append(@, PingEntry("response", pinger.url, pinger.status,
                                                   Ping(pinger.status)))]
    /\ UNCHANGED <<qvars, wvars>>

NextPing ==
    \/ PingOpenSession
    \/ PingHead
    \/ PingReturn

(***************************************************************************)
(* Initial states and specifications.                                      *)
(***************************************************************************)
MaxBytesChoices == {8, 18, DEFAULT_MAX_BYTES}
KeepChoices == {0, 1, 2, DEFAULT_GC_KEEP_LINES}

\* a file left by an earlier run or corrupted from outside: valid lines and junk
Valid(record) == [valid |-> TRUE, rec |-> record, bytes |-> Line(record)]
Junk(bytes) == [valid |-> FALSE, rec |-> PyObj, bytes |-> bytes]
SeedBytes(pieces) == Concat([i \in 1..Len(pieces) |-> pieces[i].bytes])
SeedFile(pieces) == IF pieces = <<>> THEN NoFile ELSE File(SeedBytes(pieces))

TextSeeds ==
    { <<Valid(RecA), Junk(<<"x", NL>>), Valid(RecB)>>,
      <<Junk(<<NL>>)>>,
      <<Junk(<<>>)>>,
      <<Valid(RecB), Junk(<<"{", QUOTE, "a">>)>> }
BinarySeeds == { <<Valid(RecA), Junk(<<BadByte, NL>>), Valid(RecB)>> }

InitWith(variants, callers, seeds, sizes, keeps) ==
    /\ InitWatcher({"given"}, {DEFAULT_PING_INTERVAL}, {<<>>})
    /\ pinger = NewPinger(<<"http://host">>)
    /\ variant \in variants
    /\ max_bytes \in sizes
    /\ GC_KEEP_LINES \in keeps
    /\ seed \in seeds
    /\ queue_file = SeedFile(seed)
    /\ temp_queue_file = NoFile
    /\ lock = [owner |-> "free", waiters |-> <<>>]
    /\ tasks = callers
    /\ task = [t \in Tasks |-> IdleTask]
    /\ calls = 0
    /\ faults = 0
    /\ crashes = NoCrash
    /\ written = readlines(SeedBytes(seed))
    /\ popped = 0
    /\ dropped = [run |-> 0, total |-> 0]
    /\ history = <<>>

Init == InitWith({"services"}, {"t1"}, {<<>>}, MaxBytesChoices, KeepChoices)

Step(t) ==
    \/ Acquire(t)
    \/ PushOpen(t)
    \/ PushWrite(t)
    \/ PushReturn(t)
    \/ SizeExists(t)
    \/ SizeStat(t)
    \/ GcRead(t)
    \/ GcOpenTmp(t)
    \/ GcWriteTmp(t)
    \/ GcRemove(t)
    \/ GcRename(t)
    \/ GcFinally(t)
    \/ PopExists(t)
    \/ PopRead(t)
    \/ PopUnlink(t)
    \/ PopReturn(t)

Next ==
    \E t \in Tasks :
        \/ CallPush(t)
        \/ CallPopAll(t)
        \/ CallSize(t)
        \/ CallGc(t)
        \/ Step(t)

Spec == Init /\ [][Next]_vars

\* one caller, a queue file that holds valid lines and junk when the run starts
InitCorrupt ==
    InitWith({"services"}, {"t1"}, TextSeeds \cup BinarySeeds,
             {18, DEFAULT_MAX_BYTES}, {1, DEFAULT_GC_KEEP_LINES})
SpecCorrupt == InitCorrupt /\ [][Next]_vars

\* two concurrent callers of push, pop_all and size
NextConc ==
    \E t \in Tasks :
        \/ CallPush(t)
        \/ CallPopAll(t)
        \/ CallSize(t)
        \/ Step(t)

\* one caller of the three variants, with I/O failures
NextFault ==
    \E t \in Tasks :
        \/ CallPush(t)
        \/ CallPopAll(t)
        \/ CallSize(t)
        \/ CallGc(t)
        \/ Step(t)
        \/ FailPushOpen(t)
        \/ FailPushWrite(t)
        \/ FailSizeStat(t)
        \/ FailGcStep(t)
        \/ FailGcUnlink(t)
        \/ FailPop(t)

InitFault ==
    InitWith(Variants, {"t1"}, {<<>>}, {8, DEFAULT_MAX_BYTES}, {1, DEFAULT_GC_KEEP_LINES})
SpecFault == InitFault /\ [][NextFault]_vars

\* one caller, with process crashes during pop_all and push
NextCrash ==
    \E t \in Tasks :
        \/ CallPush(t)
        \/ CallPopAll(t)
        \/ CallSize(t)
        \/ CallGc(t)
        \/ Step(t)
        \/ CrashInPop(t)
        \/ CrashInPush(t)

InitCrash ==
    InitWith({"services"}, {"t1"}, {<<>>}, {8, DEFAULT_MAX_BYTES}, {1, DEFAULT_GC_KEEP_LINES})
SpecCrash == InitCrash /\ [][NextCrash]_vars

\* a ReconnectWatcher, with or without a constructor callback and a notifier
InitWatch ==
    /\ InitWatcher({"given", "none"}, {DEFAULT_PING_INTERVAL}, {<<>>, <<"cb0">>})
    /\ pinger = NewPinger(<<"http://host">>)
    /\ variant = "services"
    /\ max_bytes = DEFAULT_MAX_BYTES
    /\ GC_KEEP_LINES = DEFAULT_GC_KEEP_LINES
    /\ seed = <<>>
    /\ queue_file = NoFile
    /\ temp_queue_file = NoFile
    /\ lock = [owner |-> "free", waiters |-> <<>>]
    /\ tasks = {}
    /\ task = [t \in Tasks |-> IdleTask]
    /\ calls = 0
    /\ faults = 0
    /\ crashes = NoCrash
    /\ written = <<>>
    /\ popped = 0
    /\ dropped = [run |-> 0, total |-> 0]
    /\ history = <<>>
SpecWatch == InitWatch /\ [][NextWatch]_vars

\* watchers with a base interval below, near and above the ceiling
PingIntervals == {DEFAULT_PING_INTERVAL, 40, 100}
InitBackoff ==
    /\ InitWatcher({"none"}, PingIntervals, {<<>>})
    /\ pinger = NewPinger(<<"http://host">>)
    /\ variant = "services"
    /\ max_bytes = DEFAULT_MAX_BYTES
    /\ GC_KEEP_LINES = DEFAULT_GC_KEEP_LINES
    /\ seed = <<>>
    /\ queue_file = NoFile
    /\ temp_queue_file = NoFile
    /\ lock = [owner |-> "free", waiters |-> <<>>]
    /\ tasks = {}
    /\ task = [t \in Tasks |-> IdleTask]
    /\ calls = 0
    /\ faults = 0
    /\ crashes = NoCrash
    /\ written = <<>>
    /\ popped = 0
    /\ dropped = [run |-> 0, total |-> 0]
    /\ history = <<>>
SpecBackoff == InitBackoff /\ [][NextWatch]_vars

\* the base URLs given to the constructor, with and without trailing slashes
BaseUrls == {<<"http://host">>, <<"http://host", "/">>, <<"http://host", "/", "/">>,
             <<"http://host", "/", "api">>}
InitPing ==
    /\ InitWatcher({"none"}, {DEFAULT_PING_INTERVAL}, {<<>>})
    /\ \E supabase_url \in BaseUrls : pinger = NewPinger(supabase_url)
    /\ variant = "services"
    /\ max_bytes = DEFAULT_MAX_BYTES
    /\ GC_KEEP_LINES = DEFAULT_GC_KEEP_LINES
    /\ seed = <<>>
    /\ queue_file = NoFile
    /\ temp_queue_file = NoFile
    /\ lock = [owner |-> "free", waiters |-> <<>>]
    /\ tasks = {}
    /\ task = [t \in Tasks |-> IdleTask]
    /\ calls = 0
    /\ faults = 0
    /\ crashes = NoCrash
    /\ written = <<>>
    /\ popped = 0
    /\ dropped = [run |-> 0, total |-> 0]
    /\ history = <<>>
SpecPing == InitPing /\ [][NextPing]_vars

InitConc ==
    InitWith({"services"}, Tasks, {<<>>},
             {18, DEFAULT_MAX_BYTES}, {1, DEFAULT_GC_KEEP_LINES})
SpecConc == InitConc /\ [][NextConc]_vars


(***************************************************************************)
(* Vocabulary of the properties.                                           *)
(***************************************************************************)
IsSuffix(s, w) == Len(s) <= Len(w) /\ s = SubSeq(w, Len(w) - Len(s) + 1, Len(w))

\* what json.loads returns for the line json.dumps wrote
JsonImage(record) == json_loads(json_dumps(record)).val
Images(records) == [i \in 1..Len(records) |-> JsonImage(records[i])]
Args(entries) == [i \in 1..Len(entries) |-> entries[i].arg]

IsPop(e) == e.op = "pop_all"
IsPush(e) == e.op = "push"
\* a push that returned to its caller without an error
Pushed(e) == e.op = "push" /\ e.kind = "return" /\ e.exc = "none"
Returned(e) == e.kind = "return"

\* the last drain before the i-th call of the history (0 if none)
PrevPop(i) ==
    LET S == {j \in 1..(i - 1) : IsPop(history[j])}
    IN IF S = {} THEN 0 ELSE CHOOSE j \in S : \A k \in S : k <= j

\* the records pushed between the previous drain and the i-th call, in order
PushedBefore(i) == Args(SelectSeq(SubSeq(history, PrevPop(i) + 1, i - 1), Pushed))
ReturnedBefore(i) ==
    Args(SelectSeq(SubSeq(history, PrevPop(i) + 1, i - 1),
                   LAMBDA e : IsPush(e) /\ Returned(e)))

Quiescent == \A t \in Tasks : task[t].pc = "idle"
NoFailure == faults = 0 /\ crashes = NoCrash
FileLines == readlines(queue_file.data)

(***************************************************************************)
(* C1 (as amended): records that json serialises, pushed since the last    *)
(* drain into a queue in which no compaction dropped a line, come back     *)
(* from pop_all as their JSON images json.loads(json.dumps(R)) in push     *)
(* order; the batch equals [R1..Rn] when every record is its own JSON      *)
(* image (string keys); a pop_all that follows a pop_all returns [].       *)
(***************************************************************************)
C1_RoundTrip ==
    \A i \in 1..Len(history) :
        (IsPop(history[i]) /\ history[i].dr = 0) =>
            /\ Returned(history[i])
            /\ history[i].val = Images(PushedBefore(i))
            /\ (\A k \in 1..Len(PushedBefore(i)) :
                    JsonImage(PushedBefore(i)[k]) = PushedBefore(i)[k])
                => history[i].val = PushedBefore(i)
            /\ (i > 1 /\ IsPop(history[i - 1])) => history[i].val = <<>>

\* two records pushed, drained in order, and the next drain is empty
C1_Witness ==
    /\ Len(history) = 4
    /\ Pushed(history[1]) /\ Pushed(history[2])
    /\ IsPop(history[3]) /\ history[3].val = <<history[1].arg, history[2].arg>>
    /\ history[1].arg # history[2].arg
    /\ IsPop(history[4]) /\ history[4].val = <<>>

\* C1 as stated, for services/file_queue.py: the batch is exactly [R1..Rn]
C1_Original ==
    \A i \in 1..Len(history) :
        (variant = "services" /\ IsPop(history[i]) /\ history[i].dr = 0) =>
            history[i].val = ReturnedBefore(i)


(***************************************************************************)
(* C2 (as amended): without crash or failure, the batch pop_all returns is *)
(* a suffix, in insertion order, of the records pushed since the previous  *)
(* drain (as their JSON images): it misses exactly the oldest records that *)
(* compaction dropped, and none when compaction dropped no line.           *)
(***************************************************************************)
C2_OnlyCompactionDrops ==
    \A i \in 1..Len(history) :
        IsPop(history[i]) =>
            /\ Returned(history[i])
            /\ IsSuffix(history[i].val, Images(PushedBefore(i)))
            /\ Len(history[i].val) = Len(PushedBefore(i)) - history[i].dr

\* a drain after a compaction that dropped a record, with records left to return
C2_Witness ==
    \E i \in 1..Len(history) :
        /\ IsPop(history[i]) /\ history[i].dr > 0 /\ Len(history[i].val) > 1
        /\ Len(PushedBefore(i)) > Len(history[i].val)

\* C2 as stated, for services/file_queue.py: every record whose push returned is
\* in the next batch (as its JSON image), compaction or not
C2_Original ==
    \A i \in 1..Len(history) :
        (variant = "services" /\ IsPop(history[i])) =>
            history[i].val = Images(ReturnedBefore(i))

(***************************************************************************)
(* C8 (as amended): after N pushes into an empty queue, with max_bytes     *)
(* below their cumulative size and N > GC_KEEP_LINES >= 1, the file holds  *)
(* the most recent m lines in order for some m with GC_KEEP_LINES <= m < N;*)
(* m = GC_KEEP_LINES when the last push compacted.                         *)
(***************************************************************************)
RECURSIVE TotalLen(_)
TotalLen(lines) == IF lines = <<>> THEN 0 ELSE Len(Head(lines)) + TotalLen(Tail(lines))

\* N pushes and nothing else have completed, N > K >= 1, max_bytes < cumulative size
C8_Case ==
    /\ Quiescent
    /\ history # <<>>
    /\ \A i \in 1..Len(history) : Pushed(history[i])
    /\ GC_KEEP_LINES >= 1
    /\ Len(history) > GC_KEEP_LINES
    /\ max_bytes < TotalLen(written)

C8_CompactionKeepsRecent ==
    C8_Case =>
        /\ queue_file.exists
        /\ IsSuffix(FileLines, written)
        /\ GC_KEEP_LINES <= Len(FileLines)
        /\ Len(FileLines) < Len(history)
        /\ history[Len(history)].gc => Len(FileLines) = GC_KEEP_LINES

\* three pushes with retention 2, the third of which compacted
C8_Witness ==
    /\ C8_Case /\ Len(history) = 3 /\ GC_KEEP_LINES = 2
    /\ history[3].gc
    /\ FileLines = SubSeq(written, 2, 3)

\* C8 as stated: exactly the most recent GC_KEEP_LINES records remain
C8_Original ==
    C8_Case => FileLines = SubSeq(written, Len(written) - GC_KEEP_LINES + 1, Len(written))

(***************************************************************************)
(* C9: without I/O failure or crash, in every state the lines of the queue *)
(* file are a contiguous suffix of the lines written since the last drain. *)
(***************************************************************************)
WrittenSinceDrain == SubSeq(written, popped + 1, Len(written))

C9_SuffixInvariant == NoFailure => IsSuffix(FileLines, WrittenSinceDrain)

\* a compaction has dropped the oldest line and newer ones are in the file
C9_Witness ==
    /\ NoFailure /\ dropped.run > 0 /\ Len(FileLines) >= 2
    /\ Len(FileLines) < Len(WrittenSinceDrain)


(***************************************************************************)
(* C5: the critical sections of push (append and compaction) and pop_all   *)
(* (exists check, read, delete) never overlap: at most one task is inside  *)
(* one, and that task owns the lock.                                       *)
(***************************************************************************)
InCritical(t) ==
    /\ task[t].op \in {"push", "pop_all"}
    /\ task[t].pc \notin {"idle", "push_acquire", "pop_acquire", "wait_lock"}

C5_MutualExclusion ==
    /\ \A t, u \in Tasks : (InCritical(t) /\ InCritical(u)) => t = u
    /\ \A t \in Tasks : InCritical(t) => lock.owner = t

\* a drain is between its read and its delete while a push waits for the lock
C5_Witness ==
    \E t, u \in Tasks :
        /\ task[t].op = "pop_all" /\ task[t].pc = "pop_unlink"
        /\ task[u].op = "push" /\ task[u].pc = "wait_lock"

(***************************************************************************)
(* C6: concurrent push and pop_all (no compaction drop, no failure) give   *)
(* the outcome of a sequential order of the calls: the pushes append their *)
(* lines one after the other, every push's own line exactly once and each  *)
(* producer's in its order; every drain returns the JSON images of a       *)
(* contiguous range of these lines, the ranges of the drains follow one    *)
(* another without gap or overlap, and the file holds the rest.            *)
(***************************************************************************)
PushEntries == {i \in 1..Len(history) : Pushed(history[i])}
PopEntries == {i \in 1..Len(history) : IsPop(history[i])}

\* the record whose push wrote the k-th line
RecordAt(k) == history[CHOOSE i \in PushEntries : history[i].hi = k].arg
Expected(lo, hi) == [k \in 1..(hi - lo) |-> JsonImage(RecordAt(lo + k))]

NoCompactionDrop == dropped.total = 0

C6_Case == Quiescent /\ NoFailure /\ NoCompactionDrop

C6_Linearizable ==
    C6_Case =>
        /\ \A k \in 1..Len(written) : \E i \in PushEntries : history[i].hi = k
        /\ \A i, j \in PushEntries :
              /\ written[history[i].hi] = json_dumps(history[i].arg) \o <<NL>>
              /\ (i # j) => history[i].hi # history[j].hi
              /\ (i < j /\ history[i].task = history[j].task)
                    => history[i].hi < history[j].hi
        /\ \A i \in PopEntries :
              /\ Returned(history[i])
              /\ history[i].lo = (IF PrevPop(i) = 0 THEN 0 ELSE history[PrevPop(i)].hi)
              /\ history[i].val = Expected(history[i].lo, history[i].hi)
        /\ ParseLines(FileLines) = Expected(popped, Len(written))
        /\ popped = (IF PopEntries = {} THEN 0
                     ELSE history[PrevPop(Len(history) + 1)].hi)

\* both tasks pushed and a drain returned the two records
C6_Witness ==
    /\ C6_Case
    /\ \E i \in PopEntries :
          /\ Len(history[i].val) = 2
          /\ \E a, b \in PushEntries :
                /\ history[a].task # history[b].task
                /\ history[a].hi <= history[i].hi /\ history[b].hi <= history[i].hi
                /\ history[i].task = history[a].task
    /\ Len(history) = 3

(***************************************************************************)
(* C7: pop_all of a queue file that mixes valid and unparsable lines does  *)
(* not fail: it returns exactly the records of the valid lines, in file    *)
(* order, and the file is deleted afterwards.                              *)
(***************************************************************************)
\* the records of the valid lines the run started with, as json.loads gives them
SeedRecords ==
    LET valid == SelectSeq(seed, LAMBDA piece : piece.valid)
    IN Images([i \in 1..Len(valid) |-> valid[i].rec])

\* the first call of the run was a pop_all, so it read the file as seeded
C7_Case == history # <<>> /\ IsPop(history[1])

C7_CorruptionTolerance ==
    C7_Case =>
        /\ Returned(history[1])
        /\ history[1].val = SeedRecords
        /\ ~history[1].file

(***************************************************************************)
(* C4: push fails loudly: a push whose append could not be completed       *)
(* raises to its caller; no push returns normally without its line in the  *)
(* file.                                                                   *)
(***************************************************************************)
C4_PushFailsLoudly ==
    \A i \in 1..Len(history) :
        (IsPush(history[i]) /\ Returned(history[i])) => history[i].exc = "none"

(***************************************************************************)
(* C10: compaction is failure-safe: the queue file is removed only once    *)
(* the temporary file holds all the lines to keep, and when a step of the  *)
(* compaction fails the queue file is left with its previous content.      *)
(***************************************************************************)
C10_FailureSafe ==
    /\ \A t \in Tasks :
          task[t].pc = "gc_rename" =>
              temp_queue_file = File(Concat(task[t].buf))
    /\ \A i \in 1..Len(history) : history[i].gcfailed => history[i].intact

(***************************************************************************)
(* C3: at-least-once under a crash in pop_all: whatever the step at which  *)
(* the process dies, after the restart every record whose push returned is *)
(* still in the queue file or was in a batch that pop_all returned.        *)
(***************************************************************************)
\* the i-th call, a push, has its line in a batch that a pop_all returned
Delivered(i) ==
    \E j \in PopEntries :
        /\ Returned(history[j])
        /\ history[j].lo < history[i].hi /\ history[i].hi <= history[j].hi
        /\ history[j].val[history[i].hi - history[j].lo] = JsonImage(history[i].arg)

\* the i-th call, a push, has its line in the queue file
InFile(i) ==
    /\ history[i].hi > popped
    /\ history[i].hi - popped <= Len(FileLines)
    /\ FileLines[history[i].hi - popped] = Line(history[i].arg)

C3_Case ==
    /\ Quiescent /\ faults = 0 /\ crashes.push = 0 /\ NoCompactionDrop

C3_AtLeastOnce ==
    C3_Case => \A i \in PushEntries : Delivered(i) \/ InFile(i)

C12_PopDeletesFile ==
    \A i \in 1..Len(history) :
        (IsPop(history[i]) /\ Returned(history[i])) => ~history[i].file

\* a drain of a file without a valid line, then two pushes drained in order, file gone
C12_Witness ==
    /\ Len(history) = 4
    /\ seed # <<>> /\ SeedRecords = <<>>
    /\ IsPop(history[1]) /\ Returned(history[1]) /\ ~history[1].file
    /\ Pushed(history[2]) /\ Pushed(history[3])
    /\ IsPop(history[4]) /\ Returned(history[4]) /\ ~history[4].file
    /\ history[4].val = <<history[2].arg, history[3].arg>>

(***************************************************************************)
(* C13: a pop_all called while the queue file does not exist returns the   *)
(* empty list without raising and leaves the file absent; so does every    *)
(* repetition.                                                             *)
(***************************************************************************)
\* the queue file did not exist when the i-th call of a sequential run began
AbsentBefore(i) == IF i = 1 THEN seed = <<>> ELSE ~history[i - 1].file

C13_AbsentFileIdempotent ==
    \A i \in 1..Len(history) :
        (IsPop(history[i]) /\ AbsentBefore(i)) =>
            /\ Returned(history[i])
            /\ history[i].val = <<>>
            /\ ~history[i].file

\* pop_all three times in a row on a queue that never had a file
C13_Witness ==
    /\ Len(history) = 3
    /\ \A i \in 1..3 : IsPop(history[i]) /\ AbsentBefore(i) /\ history[i].val = <<>>

(***************************************************************************)
(* C14: lazy file lifecycle: no queue file after construction; between     *)
(* calls the file exists if and only if a push has succeeded since the     *)
(* last successful pop_all; size() and pop_all never create the file.      *)
(***************************************************************************)
\* the last pop_all that returned (0 if none)
LastDrain ==
    LET S == {j \in PopEntries : Returned(history[j])}
    IN IF S = {} THEN 0 ELSE CHOOSE j \in S : \A k \in S : k <= j

PushedSinceDrain == \E i \in PushEntries : i > LastDrain

C14_LazyLifecycle ==
    /\ calls = 0 => ~queue_file.exists
    /\ Quiescent => (queue_file.exists <=> PushedSinceDrain)
    /\ \A i \in 1..Len(history) :
          (history[i].op \in {"size", "pop_all"} /\ AbsentBefore(i)) => ~history[i].file

(***************************************************************************)
(* C15: size() returns 0 when the file is absent and otherwise the byte    *)
(* length of the file, which (no failure) is the sum over the stored       *)
(* records of len(json.dumps(record)) + 1; an error inside size() yields   *)
(* 0, never an exception; size() changes neither the files nor the lock.   *)
(***************************************************************************)
\* the records whose lines the file holds: the most recent ones pushed
StoredRecords ==
    LET pushed == Args(SelectSeq(history, Pushed))
    IN SubSeq(pushed, Len(pushed) - Len(FileLines) + 1, Len(pushed))

RECURSIVE SerializedSize(_)
SerializedSize(records) ==
    IF records = <<>> THEN 0
    ELSE Len(json_dumps(Head(records))) + 1 + SerializedSize(Tail(records))

\* a call of size() by the only caller has just returned
C15_Case == Quiescent /\ history # <<>> /\ history[Len(history)].op = "size"

C15_SizeValue ==
    C15_Case =>
        LET e == history[Len(history)]
        IN /\ Returned(e)
           /\ e.exc # "none" => e.n = 0
           /\ e.exc = "none" => e.n = (IF queue_file.exists THEN Len(queue_file.data) ELSE 0)
           /\ faults = 0 => e.n = SerializedSize(StoredRecords)

\* the steps of a call of size() leave the files and the lock as they are
C15_SizeReadOnly ==
    \A t \in Tasks :
        (task[t].op = "size" /\ task'[t] # task[t]) =>
            UNCHANGED <<queue_file, temp_queue_file, lock>>

C15_SizeAccounting == []C15_SizeValue /\ [][C15_SizeReadOnly]_vars

\* one push into an empty queue, then size() = len(json.dumps(record)) + 1
C15_Witness ==
    /\ C15_Case /\ Len(history) = 2 /\ Pushed(history[1])
    /\ history[2].n = Len(json_dumps(history[1].arg)) + 1
    /\ history[2].n > 0

(***************************************************************************)
(* C16 (as amended): a record whose serialized line is longer than         *)
(* max_bytes is written in full: after its push into an empty queue and    *)
(* after any number of further _gc_if_needed calls the file holds exactly  *)
(* its line, and pop_all then returns its JSON image, which is the record  *)
(* itself when its keys are strings.                                       *)
(***************************************************************************)
\* the calls from the second to the n-th are calls of _gc_if_needed
OnlyGcBetween(n) == \A i \in 2..n : history[i].op = "gc"

\* an oversized record was pushed into the empty queue
C16_Case ==
    /\ Quiescent /\ history # <<>> /\ Pushed(history[1])
    /\ Len(Line(history[1].arg)) > max_bytes

AllButLastParse ==
    \A k \in 1..(Len(FileLines) - 1) : json_loads(FileLines[k]).ok

\* the pushes that returned before the crash, since the last drain, have
\* their lines in the file
CompletedPushesKept ==
    \A i \in PushEntries :
        (i <= crashes.at /\ history[i].hi > popped) => \E k \in 1..Len(FileLines) : FileLines[k] = Line(history[i].arg)

C17_Case == crashes.pop = 0 /\ faults = 0

C17_CrashContainment ==
    C17_Case =>
        /\ AllButLastParse
        /\ (Quiescent /\ NoCompactionDrop) => CompletedPushesKept

(***************************************************************************)
(* Vocabulary of the watcher properties.                                   *)
(***************************************************************************)
Of(i, ev) == SelectSeq(trace, LAMBDA e : e.loop = i /\ e.ev = ev)
Probes(i) == Of(i, "probe")
Notifications(i, what) == SelectSeq(Of(i, "notify"), LAMBDA e : e.what = what)

\* the probes of run i that succeed after a failed one, and those that fail
\* after a successful one or as the first probe
Recoveries(i) ==
    {k \in 2..Len(Probes(i)) : Probes(i)[k - 1].what = "fail" /\ Probes(i)[k].what = "success"}
Losses(i) ==
    {k \in 1..Len(Probes(i)) :
        Probes(i)[k].what = "fail" /\ (k = 1 \/ Probes(i)[k - 1].what = "success")}

(***************************************************************************)
(* C18: within one run of a watcher that has a notifier, the number of     *)
(* "online" notifications is the number of probes that succeed after a     *)
(* failed one, and the number of "offline" notifications is the number of  *)
(* probes that fail after a successful one or as the first probe.          *)
(***************************************************************************)
C18_Transitions ==
    event_notifier = "given" =>
        \A i \in 1..Len(loops) :
            /\ Len(Notifications(i, "online")) = Cardinality(Recoveries(i))
            /\ Len(Notifications(i, "offline")) = Cardinality(Losses(i))

\* the probes success, fail, fail, success gave one "offline" and one "online"
C18_Witness ==
    /\ event_notifier = "given"
    /\ \E i \in 1..Len(loops) :
          /\ [k \in 1..Len(Probes(i)) |-> Probes(i)[k].what]
                = <<"success", "fail", "fail", "success">>
          /\ Len(Notifications(i, "online")) = 1
          /\ Len(Notifications(i, "offline")) = 1

(***************************************************************************)
(* C19: within one run, on every detected offline-to-online transition     *)
(* every callback registered so far is invoked exactly once, and no        *)
(* callback is invoked at any other time.  A cycle that stop() cancelled   *)
(* is left out.                                                            *)
(***************************************************************************)
\* the last probe of the same run before position p of the trace (0 if none)
LastProbe(p) ==
    LET S == {j \in 1..(p - 1) : trace[j].loop = trace[p].loop /\ trace[j].ev = "probe"}
    IN IF S = {} THEN 0 ELSE CHOOSE j \in S : \A k \in S : k <= j

\* position p is a successful probe that follows a failed probe of its run
IsRecovery(p) ==
    /\ trace[p].ev = "probe" /\ trace[p].what = "success"
    /\ LastProbe(p) # 0 /\ trace[LastProbe(p)].what = "fail"

\* where the cycle of the probe at p ends: its sleep, or the end of the run
CycleEnd(p) ==
    LET S == {q \in (p + 1)..Len(trace) :
                 /\ trace[q].loop = trace[p].loop
                 /\ trace[q].ev \in {"sleep", "died", "cancelled"}}
    IN IF S = {} THEN 0 ELSE CHOOSE q \in S : \A k \in S : q <= k

\* the callbacks in the list when the trace had p - 1 entries
RegisteredBefore(p) ==
    {on_reconnects[k] : k \in 1..Len(on_reconnects)}
        \ {trace[j].what : j \in {q \in p..Len(trace) : trace[q].ev = "register"}}

Invocations(c, p, q) ==
    {j \in p..q : trace[j].loop = trace[p].loop /\ trace[j].ev = "callback" /\ trace[j].what = c}

C19_CallbacksPerReconnect ==
    \A p \in 1..Len(trace) :
        /\ (IsRecovery(p) /\ CycleEnd(p) # 0 /\ trace[CycleEnd(p)].ev # "cancelled") =>
              \A c \in RegisteredBefore(p) : Cardinality(Invocations(c, p, CycleEnd(p))) = 1
        /\ trace[p].ev = "callback" => (LastProbe(p) # 0 /\ IsRecovery(LastProbe(p)))

(***************************************************************************)
(* C20: callback isolation: when a reconnect callback raises, the cycle    *)
(* does not end the run; unless stop() cancels it, every registered        *)
(* callback is invoked in that cycle, the failure counter is reset and the *)
(* loop goes to its next sleep.                                            *)
(***************************************************************************)
\* position j of the trace is the end of a callback that raised
Raised(j) == trace[j].ev = "callback_end" /\ trace[j].n = 1

C20_CallbackIsolation ==
    \A j \in 1..Len(trace) :
        (Raised(j) /\ CycleEnd(LastProbe(j)) # 0) =>
            LET p == LastProbe(j)
                q == CycleEnd(p)
            IN /\ trace[q].ev \in {"sleep", "cancelled"}
               /\ trace[q].ev = "sleep" =>
                     /\ \A c \in RegisteredBefore(p) : Cardinality(Invocations(c, p, q)) = 1
                     /\ trace[q - 1].ev = "counter" /\ trace[q - 1].n = 0
                     /\ ~Finished(loops[trace[q].loop]) \/ q < Len(trace)

\* the first of two callbacks raised, the second was invoked, the loop sleeps
C20_Witness ==
    /\ Len(on_reconnects) = 2
    /\ \E j \in 1..Len(trace) :
          /\ Raised(j) /\ trace[j].what = on_reconnects[1]
          /\ CycleEnd(LastProbe(j)) # 0 /\ trace[CycleEnd(LastProbe(j))].ev = "sleep"
          /\ Invocations(on_reconnects[2], j, CycleEnd(LastProbe(j))) # {}
          /\ loops[trace[j].loop].pc = "sleeping" /\ fail_count = 0

(***************************************************************************)
(* C21: no spurious events: a probe whose outcome equals the outcome of    *)
(* the previous probe of the watcher emits no notification and invokes no  *)
(* callback, and two equal notifications are never emitted in a row.       *)
(***************************************************************************)
\* the last probe of the watcher, in any run, before position p (0 if none)
PreviousProbe(p) ==
    LET S == {j \in 1..(p - 1) : trace[j].ev = "probe"}
    IN IF S = {} THEN 0 ELSE CHOOSE j \in S : \A k \in S : k <= j

\* the notifications and callback invocations after the probe at p and
\* before the next probe of the watcher
Emitted(p) ==
    {j \in (p + 1)..Len(trace) :
        /\ trace[j].ev \in {"notify", "callback"}
        /\ \A k \in (p + 1)..j : trace[k].ev # "probe"}

AllNotifications == SelectSeq(trace, LAMBDA e : e.ev = "notify")

C21_NoSpuriousEvents ==
    /\ \A p \in 1..Len(trace) :
          (/\ trace[p].ev = "probe"
           /\ PreviousProbe(p) # 0
           /\ trace[PreviousProbe(p)].what = trace[p].what) => Emitted(p) = {}
    /\ \A k \in 2..Len(AllNotifications) :
          AllNotifications[k].what # AllNotifications[k - 1].what

(***************************************************************************)
(* C22: backoff growth: in a streak of consecutive failed probes that      *)
(* begins with the failure counter at 0, with base interval I and the      *)
(* ceiling not reached, the sleeps after the 1st, 2nd, 3rd and 4th failure *)
(* are I, I, 2I, 2I (the interval doubles at the third failure).           *)
(***************************************************************************)
\* the first probe of the streak of failed probes of the watcher that the
\* failed probe at p belongs to
StreakStart(p) ==
    LET S == {s \in 1..p :
                 /\ trace[s].ev = "probe"
                 /\ \A j \in s..p : trace[j].ev = "probe" => trace[j].what = "fail"}
    IN CHOOSE s \in S : \A k \in S : s <= k

\* the failed probe at p is the FailureNo(p)-th of its streak
FailureNo(p) == Cardinality({j \in StreakStart(p)..p : trace[j].ev = "probe"})

\* the value the failure counter had when the trace had p - 1 entries
CounterBefore(p) ==
    LET S == {j \in 1..(p - 1) : trace[j].ev = "counter"}
    IN IF S = {} THEN 0 ELSE trace[CHOOSE j \in S : \A k \in S : k <= j].n

\* the probe at p failed, in a streak that began with the counter at 0 and
\* has at most 4 failures so far, and the loop reached its sleep
C22_Case(p) ==
    /\ trace[p].ev = "probe" /\ trace[p].what = "fail"
    /\ CounterBefore(StreakStart(p)) = 0
    /\ FailureNo(p) <= 4
    /\ 2 * ping_interval < MAX_BACKOFF
    /\ CycleEnd(p) # 0 /\ trace[CycleEnd(p)].ev = "sleep"

C22_BackoffGrowth ==
    \A p \in 1..Len(trace) :
        C22_Case(p) =>
            trace[CycleEnd(p)].n =
                <<ping_interval, ping_interval, 2 * ping_interval, 2 * ping_interval>>[FailureNo(p)]

\* four failures in a row from the start, with the sleeps I, I, 2I, 2I
C22_Witness ==
    \E p \in 1..Len(trace) :
        /\ C22_Case(p) /\ FailureNo(p) = 4
        /\ [k \in 1..4 |-> Of(trace[p].loop, "sleep")[k].n]
              = <<ping_interval, ping_interval, 2 * ping_interval, 2 * ping_interval>>

\* the statement with the sleeps I, I, I, 2I
C22_Original ==
    \A p \in 1..Len(trace) :
        C22_Case(p) =>
            trace[CycleEnd(p)].n =
                <<ping_interval, ping_interval, ping_interval, 2 * ping_interval>>[FailureNo(p)]

(***************************************************************************)
(* C23: backoff formula and ceiling: every sleep of the loop lasts         *)
(* min(base_interval * 2^(f \div 3), ceiling), where f is the failure      *)
(* counter after the probe just made; no sleep exceeds the ceiling, and    *)
(* the sleep after a successful probe is min(base_interval, ceiling).      *)
(***************************************************************************)
C23_BackoffFormula ==
    \A q \in 1..Len(trace) :
        trace[q].ev = "sleep" =>
            LET f == CounterBefore(q)
                p == LastProbe(q)
            IN /\ p # 0
               /\ trace[q].n = Min(ping_interval * Pow2(f \div 3), MAX_BACKOFF)
               /\ trace[q].n <= MAX_BACKOFF
               /\ trace[p].what = "success" => trace[q].n = Min(ping_interval, MAX_BACKOFF)
               /\ trace[p].what = "fail" => f = CounterBefore(p) + 1

\* a sleep that the ceiling cut: base interval 40, three failures, 60 not 80
C23_Witness ==
    \E q \in 1..Len(trace) :
        /\ trace[q].ev = "sleep"
        /\ CounterBefore(q) = 3
        /\ ping_interval < MAX_BACKOFF
        /\ ping_interval * Pow2(CounterBefore(q) \div 3) > MAX_BACKOFF
        /\ trace[q].n = MAX_BACKOFF

(***************************************************************************)
(* C24: failure counter: at the end of each completed loop iteration the   *)
(* counter equals the number of consecutive failed probes of the watcher   *)
(* since its most recent successful probe (or since construction); each    *)
(* failed probe adds exactly 1 and each completed iteration of a           *)
(* successful probe leaves it at 0.                                        *)
(***************************************************************************)
C24_FailureCounter ==
    \A q \in 1..Len(trace) :
        /\ trace[q].ev = "sleep" =>
              CounterBefore(q) = (IF trace[LastProbe(q)].what = "success"
                                  THEN 0 ELSE FailureNo(LastProbe(q)))
        /\ (trace[q].ev = "counter" /\ trace[LastProbe(q)].what = "fail") =>
              trace[q].n = CounterBefore(q) + 1

(***************************************************************************)
(* C25: start() is idempotent: a start() while the watcher is running      *)
(* creates no task and leaves the existing one in place; the start() calls *)
(* made without a stop() between them create exactly one loop task.        *)
(***************************************************************************)
\* the start() calls that are the first since construction or since a stop()
FirstStarts ==
    {j \in 1..Len(trace) :
        /\ trace[j].ev = "start"
        /\ \A k \in 1..(j - 1) :
              trace[k].ev = "start" => \E m \in (k + 1)..(j - 1) : trace[m].ev = "stop"}

C25_OneTaskPerWindow ==
    /\ Len(loops) = Cardinality(FirstStarts)
    /\ watch_task = Len(loops)

C25_StartWhileRunning ==
    (wcalls'.starts = wcalls.starts + 1 /\ running) =>
        /\ loops' = loops
        /\ watch_task' = watch_task
        /\ running'

C25_StartIdempotent == []C25_OneTaskPerWindow /\ [][C25_StartWhileRunning]_vars

\* start() was called twice in a row and there is one task, still running
C25_Witness ==
    /\ \E j \in 2..Len(trace) :
          /\ trace[j].ev = "start"
          /\ \E k \in 1..(j - 1) :
                /\ trace[k].ev = "start"
                /\ \A m \in k..j : trace[m].ev # "stop"
    /\ Len(loops) = 1 /\ watch_task = 1 /\ running
    /\ loops[1].pc = "sleeping"

(***************************************************************************)
(* C26: stop() bounds the lifetime of the loop: it clears the running      *)
(* flag, cancels the loop task and returns, without raising, only after    *)
(* the task has finished; the loop probes, notifies and calls back only    *)
(* between the start() that created it and the return of the stop() that   *)
(* cancelled it; a stop() before any start() or after another stop()       *)
(* changes nothing and returns.                                            *)
(***************************************************************************)
\* the task that the stop() at position b of the trace awaits (0 if none)
TargetOf(b) == Cardinality({j \in FirstStarts : j < b})

\* where the stop() that began at position b returned or raised (0: not yet)
StopEndOf(b) ==
    LET S == {e \in (b + 1)..Len(trace) : trace[e].ev = "stop_end"}
    IN IF S = {} THEN 0 ELSE CHOOSE e \in S : \A k \in S : e <= k

\* the start() that created loop i
StartOf(i) == CHOOSE j \in FirstStarts : Cardinality({k \in FirstStarts : k <= j}) = i

\* the positions of the trace where loop i has ended
Ended(i) == {j \in 1..Len(trace) : trace[j].loop = i /\ trace[j].ev \in {"cancelled", "exit", "died"}}

C26_StopReturns ==
    \A b \in 1..Len(trace) :
        (trace[b].ev = "stop" /\ StopEndOf(b) # 0) =>
            /\ trace[StopEndOf(b)].what = "return"
            /\ TargetOf(b) # 0 => \E j \in Ended(TargetOf(b)) : j < StopEndOf(b)

C26_Lifetime ==
    \A j \in 1..Len(trace) :
        trace[j].ev \in {"probe", "notify", "callback"} =>
            /\ trace[j].loop \in 1..Len(loops)
            /\ StartOf(trace[j].loop) < j
            /\ \A b \in 1..(j - 1) :
                  (trace[b].ev = "stop" /\ TargetOf(b) = trace[j].loop) =>
                      (StopEndOf(b) = 0 \/ j < StopEndOf(b))

C26_StopStep ==
    (wcalls'.stops = wcalls.stops + 1) =>
        /\ ~running'
        /\ (watch_task # 0 /\ ~Finished(loops[watch_task])) => loops'[watch_task].cancel
        /\ (watch_task = 0 \/ Finished(loops[watch_task])) =>
              UNCHANGED <<loops, watch_task, fail_count, is_online, last_checked_at, on_reconnects>>

C26_StopBoundsLifetime ==
    [](C26_StopReturns /\ C26_Lifetime) /\ [][C26_StopStep]_vars

(***************************************************************************)
(* C27: sequential cycle: in every interleaving of start(), stop() and the *)
(* loop, start() during a pending stop() included, at most one watch loop  *)
(* is active, so at most one probe is in flight and a probe overlaps no    *)
(* sleep, callback or other probe.  A loop is active from its creation     *)
(* until it ends or its task is cancelled: cancel() cancels the future the *)
(* task awaits, and all the task still does is handle CancelledError.      *)
(***************************************************************************)
Active(i) == ~Finished(loops[i]) /\ ~loops[i].cancel
ActiveLoops == {i \in 1..Len(loops) : Active(i)}
InFlight == {i \in ActiveLoops : loops[i].pc = "pinging"}

\* after the stop() at position b, the loop it cancelled only ends
CancelledLoopsOnlyEnd ==
    \A b \in 1..Len(trace) :
        trace[b].ev = "stop" =>
            \A j \in (b + 1)..Len(trace) :
                (TargetOf(b) # 0 /\ trace[j].loop = TargetOf(b)) => trace[j].ev = "cancelled"

C27_SequentialCycle ==
    /\ Cardinality(ActiveLoops) <= 1
    /\ Cardinality(InFlight) <= 1
    /\ \A i \in InFlight : \A j \in ActiveLoops \ {i} :
          loops[j].pc \notin {"pinging", "sleeping", "callback"}
    /\ CancelledLoopsOnlyEnd

\* start() ran while stop() still awaits the cancelled task, and the new
\* loop has a probe in flight
C27_Witness ==
    /\ stopper.pc = "awaiting"
    /\ ~Finished(loops[stopper.target]) /\ loops[stopper.target].pc = "pinging"
    /\ Len(loops) = 2
    /\ InFlight = {2}

(***************************************************************************)
(* C28: the loop never dies from a contained error: no exception raised by *)
(* a probe, a reconnect callback or the notifier ends a loop task or       *)
(* reaches the caller of stop(); while the watcher is running its current  *)
(* task is alive and goes on probing.                                      *)
(***************************************************************************)
C28_LoopNeverDies ==
    /\ \A i \in 1..Len(loops) : loops[i].pc # "failed"
    /\ running => (watch_task # 0 /\ Active(watch_task))
    /\ \A j \in 1..Len(trace) : trace[j].ev # "died"
    /\ \A j \in 1..Len(trace) : trace[j].ev = "stop_end" => trace[j].what = "return"

(***************************************************************************)
(* C29: probe outcome mapping: _ping() returns True if and only if the     *)
(* HEAD request to <base>/rest/v1/ completed with status 200; every other  *)
(* status and every exception raised while the session is opened or the    *)
(* request is sent gives False; each call ends with a returned value.      *)
(***************************************************************************)
C29_ProbeMapping ==
    /\ \A k \in 1..Len(pinger.log) :
          LET e == pinger.log[k]
          IN /\ e.ret \in BOOLEAN
             /\ e.ret <=> (e.stage = "response" /\ e.result = "200")
             /\ e.stage # "session" =>
                   /\ e.url = RStrip(pinger.given) \o <<"/", "rest", "/", "v1", "/">>
                   /\ \A j \in 2..Len(e.url) : ~(e.url[j - 1] = "/" /\ e.url[j] = "/")
    /\ Len(pinger.log) = pinger.n - (IF pinger.pc = "idle" THEN 0 ELSE 1)

\* probes that ended with status 200, with another status and with an exception
C29_Witness ==
    /\ pinger.given = <<"http://host", "/">>
    /\ Len(pinger.log) = 2
    /\ pinger.log[1].result = "204" /\ ~pinger.log[1].ret
    /\ pinger.log[2].result = "200" /\ pinger.log[2].ret
    /\ pinger.log[2].url = <<"http://host", "/", "rest", "/", "v1", "/">>

(***************************************************************************)
(* C30: exposed state: is_online is None exactly as long as no probe has   *)
(* completed, and afterwards it is the outcome of the most recently        *)
(* completed probe, after stop() too; last_checked_at is None exactly when *)
(* is_online is, and the two change only together, when a probe completes. *)
(***************************************************************************)
AllProbes == SelectSeq(trace, LAMBDA e : e.ev = "probe")

C30_ExposedValue ==
    /\ (is_online = "None") <=> (AllProbes = <<>>)
    /\ (last_checked_at = 0) <=> (is_online = "None")
    /\ AllProbes # <<>> =>
          /\ is_online = (IF AllProbes[Len(AllProbes)].what = "success" THEN "True" ELSE "False")
          /\ last_checked_at = AllProbes[Len(AllProbes)].n

C30_UpdatedTogether ==
    /\ (is_online' # is_online \/ last_checked_at' # last_checked_at) =>
          (wcalls'.probes = wcalls.probes + 1 /\ last_checked_at' # last_checked_at)
    /\ (wcalls'.probes = wcalls.probes + 1) => last_checked_at' # last_checked_at

C30_ExposedState == []C30_ExposedValue /\ [][C30_UpdatedTogether]_vars

\* the watcher went online, then offline, and was stopped: is_online is False
C30_Witness ==
    /\ Len(AllProbes) = 2
    /\ AllProbes[1].what = "success" /\ AllProbes[2].what = "fail"
    /\ is_online = "False" /\ last_checked_at = AllProbes[2].n
    /\ ~running /\ stopper.pc = "idle"
    /\ trace[Len(trace)].ev = "stop_end"

(***************************************************************************)
(* C31: compaction trigger and frame: the steps of a compaction run only   *)
(* when the size of the file after the append is strictly greater than     *)
(* max_bytes; when the size is at most max_bytes, _gc_if_needed, called    *)
(* from push or directly, leaves the file as it is and creates no          *)
(* temporary file.                                                         *)
(***************************************************************************)
GcSteps == {"gc_read", "gc_open_tmp", "gc_write_tmp", "gc_remove", "gc_rename"}

\* the size check of task t found the file absent or not above max_bytes
Skipped(t) == Len(task[t].before.data) <= max_bytes

C31_Trigger ==
    /\ \A t \in tasks :
          task[t].pc \in GcSteps =>
              (task[t].before.exists /\ Len(task[t].before.data) > max_bytes)
    /\ temp_queue_file.exists =>
          \E t \in tasks : task[t].pc \in GcSteps \cup {"gc_finally"} /\ ~Skipped(t)
    /\ \A t \in tasks :
          (task[t].pc = "gc_finally" /\ Skipped(t)) => queue_file = task[t].before

C31_Frame ==
    \A t \in tasks :
        (task[t].pc = "gc_finally" /\ Skipped(t) /\ task'[t].pc # "gc_finally") =>
            /\ queue_file' = task[t].before
            /\ ~temp_queue_file'.exists
            /\ dropped' = dropped

C31_CompactionTrigger == []C31_Trigger /\ [][C31_Frame]_vars

\* two pushes filled the file to exactly max_bytes and nothing was compacted
C31_Witness ==
    /\ Quiescent
    /\ Len(history) = 2 /\ Pushed(history[1]) /\ Pushed(history[2])
    /\ queue_file.exists /\ Len(queue_file.data) = max_bytes
    /\ FileLines = written
    /\ ~history[2].gc /\ history[2].intact /\ ~history[2].tmp

(***************************************************************************)
(* C32: retention count: for every retention count K >= 0 and every file   *)
(* of n lines, a triggered compaction keeps, and after its rename the file *)
(* holds, exactly the last min(K, n) lines of the file: no line for K = 0, *)
(* all n lines for K >= n.                                                 *)
(***************************************************************************)
\* the last min(K, n) lines of the file that the compaction of task t read
LastLines(t) ==
    LET lines == readlines(task[t].before.data)
        n == Len(lines)
    IN SubSeq(lines, n - Min(GC_KEEP_LINES, n) + 1, n)

C32_Kept ==
    \A t \in tasks :
        task[t].pc \in (GcSteps \ {"gc_read"}) => task[t].buf = LastLines(t)

C32_Renamed ==
    \A t \in tasks :
        (task[t].pc = "gc_rename" /\ task'[t].pc = "gc_finally" /\ task'[t].gc) =>
            readlines(queue_file'.data) = LastLines(t)

C32_RetentionCount == []C32_Kept /\ [][C32_Renamed]_vars

(***************************************************************************)
(* C33: a failed drain keeps the data: when pop_all fails with an I/O      *)
(* error while it opens or reads the file, the error is raised to the      *)
(* caller, the file is neither deleted nor changed, the call ends without  *)
(* another attempt, and the next pop_all returns the records the failed    *)
(* one would have returned.                                                *)
(***************************************************************************)
FailedDrain(i) ==
    IsPop(history[i]) /\ history[i].kind = "raise" /\ history[i].exc = "OSError"

\* every I/O failure of the run so far was a failure of pop_all
OnlyDrainFaults == faults = Cardinality({i \in 1..Len(history) : FailedDrain(i)})

C33_DataKept ==
    \A i \in 1..Len(history) :
        /\ (IsPop(history[i]) /\ history[i].exc = "OSError") => history[i].kind = "raise"
        /\ FailedDrain(i) =>
              /\ history[i].file
              /\ (/\ i < Len(history)
                  /\ IsPop(history[i + 1]) /\ Returned(history[i + 1])
                  /\ OnlyDrainFaults /\ history[i + 1].dr = 0) =>
                    /\ history[i + 1].lo = history[i].lo
                    /\ history[i + 1].hi = history[i].hi
                    /\ history[i + 1].val =
                          ParseLines(SubSeq(written, history[i].lo + 1, history[i].hi))

C33_NoChangeNoRetry ==
    \A t \in tasks :
        (task[t].op = "pop_all" /\ (task[t].exc = "OSError" \/ task'[t].exc = "OSError")) =>
            /\ queue_file' = queue_file
            /\ (task[t].exc = "OSError" /\ task'[t] # task[t]) => task'[t].pc = "idle"

C33_FailedDrainKeepsData == []C33_DataKept /\ [][C33_NoChangeNoRetry]_vars

\* a drain failed, the next one returned the record pushed before
C33_Witness ==
    /\ Len(history) = 3
    /\ Pushed(history[1])
    /\ FailedDrain(2)
    /\ IsPop(history[3]) /\ Returned(history[3])
    /\ history[3].val = Images(<<history[1].arg>>)
    /\ ~queue_file.exists

(***************************************************************************)
(* C34: bounded backlog: with GC_KEEP_LINES >= 1 and no failure, between   *)
(* operations, and so after every push that returned, the queue file has   *)
(* at most max_bytes bytes or holds at most GC_KEEP_LINES lines.           *)
(***************************************************************************)
C34_BoundedBacklog ==
    (Quiescent /\ GC_KEEP_LINES >= 1 /\ queue_file.exists) =>
        \/ Len(queue_file.data) <= max_bytes
        \/ Len(FileLines) <= GC_KEEP_LINES

\* three pushes with retention 2: the file is above max_bytes with 2 lines
C34_Witness ==
    /\ Quiescent /\ GC_KEEP_LINES = 2
    /\ Len(history) = 3 /\ \A i \in 1..3 : Pushed(history[i])
    /\ history[3].gc
    /\ Len(queue_file.data) > max_bytes
    /\ Len(FileLines) = 2 /\ dropped.total = 1

(***************************************************************************)
(* C35: recovery after a torn write: after a crash during push, which may  *)
(* leave a torn last line without its newline, the line of every push that *)
(* completed after the restart is a line of the queue file, and the next   *)
(* pop_all returns its record; only the torn record is skipped.            *)
(***************************************************************************)
C35_Case == crashes.push = 1 /\ crashes.pop = 0 /\ faults = 0

\* the pushes completed after the restart and not yet drained
PushedAfterRestart == {i \in PushEntries : i > crashes.at /\ history[i].hi > popped}

C35_StoredAsOwnLine ==
    (Quiescent /\ NoCompactionDrop) =>
        \A i \in PushedAfterRestart :
            \E k \in 1..Len(FileLines) : FileLines[k] = Line(history[i].arg)

C35_ReturnedByNextPop ==
    \A j \in PopEntries :
        (j > crashes.at /\ Returned(history[j]) /\ history[j].dr = 0) =>
            \A i \in PushEntries :
                (i > crashes.at /\ PrevPop(j) < i /\ i < j) =>
                    \E k \in 1..Len(history[j].val) :
                        history[j].val[k] = JsonImage(history[i].arg)

C35_TornWriteRecovery ==
    C35_Case => (C35_StoredAsOwnLine /\ C35_ReturnedByNextPop)

(***************************************************************************)
(* C36: reconnect detection across restarts: whenever a probe succeeds and *)
(* the previous completed probe of the watcher, in the same run or in a    *)
(* run before a stop() and a new start(), had failed, the cycle of that    *)
(* probe emits an "online" notification and invokes every registered       *)
(* callback.  A cycle that did not reach its sleep is left out.            *)
(***************************************************************************)
\* the probe at p succeeds after a failed probe of the watcher, in any run
IsRecoveryOfWatcher(p) ==
    /\ trace[p].ev = "probe" /\ trace[p].what = "success"
    /\ PreviousProbe(p) # 0 /\ trace[PreviousProbe(p)].what = "fail"

C36_ReconnectAcrossRestarts ==
    \A p \in 1..Len(trace) :
        (IsRecoveryOfWatcher(p) /\ CycleEnd(p) # 0 /\ trace[CycleEnd(p)].ev = "sleep") =>
            /\ event_notifier = "given" =>
                  \E j \in p..CycleEnd(p) :
                      /\ trace[j].loop = trace[p].loop
                      /\ trace[j].ev = "notify" /\ trace[j].what = "online"
            /\ \A c \in RegisteredBefore(p) : Invocations(c, p, CycleEnd(p)) # {}

(***************************************************************************)
(* C37: counter/state consistency: wherever the loop is suspended, also    *)
(* while a reconnect callback is awaited and after stop() cancelled the    *)
(* loop in the middle of a cycle, is_online = True implies that the        *)
(* failure counter is 0 and is_online = False that it is at least 1.       *)
(***************************************************************************)
C37_CounterMatchesState ==
    /\ is_online = "True" => fail_count = 0
    /\ is_online = "False" => fail_count >= 1

(***************************************************************************)
(* C38: order within a reconnect cycle: the events of a run from a probe   *)
(* that succeeds after a failed one to the next sleep are, in this order:  *)
(* the probe (with is_online and last_checked_at), the "online"            *)
(* notification if there is a notifier, then for each callback in          *)
(* registration order its invocation followed by its end, then the reset   *)
(* of the counter and the sleep; no probe of the run lies in between.  A   *)
(* cycle that stop() cancelled or that a raising notifier ended is left    *)
(* out.                                                                    *)
(***************************************************************************)
\* the events of the run of the probe at p, from p to the end of its cycle
Cycle(p) == SelectSeq(SubSeq(trace, p, CycleEnd(p)), LAMBDA e : e.loop = trace[p].loop)

\* the number of events before the first callback, and of callbacks invoked
Preamble == IF event_notifier = "given" THEN 2 ELSE 1
Invoked(p) == (Len(Cycle(p)) - Preamble - 2) \div 2

C38_Ordered(p) ==
    LET C == Cycle(p)
        o == Preamble
        m == Invoked(p)
    IN /\ Len(C) >= o + 2 /\ Len(C) = o + 2 * m + 2
       /\ C[1] = trace[p]
       /\ event_notifier = "given" => (C[2].ev = "notify" /\ C[2].what = "online")
       /\ Cardinality(RegisteredBefore(p)) <= m /\ m <= Len(on_reconnects)
       /\ \A k \in 1..m :
             /\ C[o + 2 * k - 1].ev = "callback" /\ C[o + 2 * k - 1].what = on_reconnects[k]
             /\ C[o + 2 * k].ev = "callback_end" /\ C[o + 2 * k].what = on_reconnects[k]
       /\ C[Len(C) - 1].ev = "counter" /\ C[Len(C) - 1].n = 0
       /\ C[Len(C)].ev = "sleep"

\* a loop that awaits a callback has made its probe visible and is not probing
C38_StateDuringCallback ==
    \A i \in 1..Len(loops) :
        (loops[i].pc = "callback" /\ trace[Len(trace)].loop = i) =>
            /\ trace[Len(trace)].ev = "callback"
            /\ is_online = "True"
            /\ last_checked_at = trace[LastProbe(Len(trace))].n

C38_ReconnectOrder ==
    /\ \A p \in 1..Len(trace) :
          (IsRecovery(p) /\ CycleEnd(p) # 0 /\ trace[CycleEnd(p)].ev = "sleep") =>
              C38_Ordered(p)
    /\ C38_StateDuringCallback

\* with a notifier and two callbacks: probe, notification, first callback
\* and its end, second callback and its end, counter reset, sleep
C38_Witness ==
    /\ event_notifier = "given" /\ Len(on_reconnects) = 2
    /\ \E p \in 1..Len(trace) :
          /\ IsRecovery(p) /\ CycleEnd(p) # 0 /\ trace[CycleEnd(p)].ev = "sleep"
          /\ Len(Cycle(p)) = 8
          /\ Cycle(p)[3].what = on_reconnects[1] /\ Cycle(p)[5].what = on_reconnects[2]

(***************************************************************************)
(* Two concurrent callers of push and pop_all with I/O failures, in which  *)
(* every file operation terminates: a task that can take a step, or whose  *)
(* operation can fail, eventually does (weak fairness of its steps).       *)
(***************************************************************************)
Progress(t) ==
    \/ Step(t)
    \/ FailPushOpen(t)
    \/ FailPushWrite(t)
    \/ FailSizeStat(t)
    \/ FailGcStep(t)
    \/ FailGcUnlink(t)
    \/ FailPop(t)

NextLive ==
    \E t \in Tasks :
        \/ CallPush(t)
        \/ CallPopAll(t)
        \/ Progress(t)

InitLive ==
    InitWith({"services"}, Tasks, {<<>>}, {8, DEFAULT_MAX_BYTES}, {1, DEFAULT_GC_KEEP_LINES})

\* Progress(t) is enabled exactly when t is in a call and not queued at the lock
Runnable(t) == task[t].pc \notin {"idle", "wait_lock"}

\* weak fairness of Progress(t), WF_vars(Progress(t)), written with Runnable(t)
\* for ENABLED <<Progress(t)>>_vars
Fair(t) == []<>(~Runnable(t)) \/ []<><<Progress(t)>>_vars

SpecLive == InitLive /\ [][NextLive]_vars /\ \A t \in Tasks : Fair(t)

(***************************************************************************)
(* C39: no deadlock on the queue lock: a push or pop_all that has ended,   *)
(* by returning or by raising after a write error, a read error or a       *)
(* compaction failure, does not hold the lock; and, file operations        *)
(* terminating, every push or pop_all that was called eventually acquires  *)
(* the lock and ends.                                                      *)
(***************************************************************************)
InCall(t) == task[t].pc # "idle"
Waits(t) == task[t].pc \in {"push_acquire", "pop_acquire", "wait_lock"}
InLock(t) == task[t].op \in {"push", "pop_all"} /\ InCall(t) /\ ~Waits(t)
IsWaiter(t) == \E k \in 1..Len(lock.waiters) : lock.waiters[k] = t

\* the lock is held by a task inside its critical section or by nobody, the
\* waiters are tasks suspended at the lock, and a lock with waiters is held
C39_LockState ==
    /\ \A t \in Tasks :
          /\ lock.owner = t <=> InLock(t)
          /\ IsWaiter(t) <=> task[t].pc = "wait_lock"
    /\ lock.waiters # <<>> => lock.owner # "free"

\* the step that ends a call of t, returning or raising, gives the lock up
C39_EndReleases ==
    \A t \in Tasks :
        (InLock(t) /\ ~InCall(t)') =>
            /\ Len(history') = Len(history) + 1
            /\ lock'.owner # t
            /\ lock'.owner = (IF lock.waiters = <<>> THEN "free" ELSE Head(lock.waiters))

C39_Completes == \A t \in Tasks : InCall(t) ~> ~InCall(t)

C39_NoDeadlock == []C39_LockState /\ [][C39_EndReleases]_vars /\ C39_Completes

\* the append of a push has raised OSError inside the critical section
\* while the push of the other task is queued at the lock
C39_Witness ==
    \E t \in Tasks :
        /\ task[t].op = "push" /\ task[t].pc = "push_return" /\ task[t].exc = "OSError"
        /\ lock.owner = t /\ Len(lock.waiters) = 1
        /\ task[Head(lock.waiters)].op = "push"
        /\ faults = 1 /\ history = <<>>

\* two concurrent callers and a queue that compacts at every push
InitSnapshot ==
    InitWith({"services"}, Tasks, {<<>>}, {8}, {1, DEFAULT_GC_KEEP_LINES})
SpecSnapshot == InitSnapshot /\ [][NextConc]_vars

(***************************************************************************)
(* C40: consistent size snapshots: a size() called by another task while a *)
(* push, compacting or not, or a pop_all is under way never returns 0      *)
(* while the records of the queue exist; in particular it does not return  *)
(* 0 while a compaction has removed the queue file and holds the kept      *)
(* lines in the temp file it is about to rename.                           *)
(***************************************************************************)
SizeEntries == {i \in 1..Len(history) : history[i].op = "size"}

C40_ConsistentSize ==
    NoFailure =>
        \A i \in SizeEntries :
            ~(history[i].n = 0 /\ ~history[i].file /\ history[i].tmp)

====
